---- MODULE Spec2Model ----
(***************************************************************************)
(* A model of castro's script engine (app/lua/state.go): the pool of Lua   *)
(* interpreter states (stateList, WidgetList) and the registry of compiled *)
(* function protos (compiledStateList, CompiledPageList).                  *)
(*                                                                         *)
(* Strings are sequences of one-character strings, so that the string      *)
(* functions the code relies on (strings.ToLower, strings.HasSuffix,       *)
(* strings.Replace, filepath.Join) are computed character by character.    *)
(***************************************************************************)
EXTENDS Integers, Sequences, FiniteSets, TLC

(***************************************************************************)
(* Bounds of the model.                                                    *)
(***************************************************************************)
\* Number of concurrent request goroutines using the pool.
NumCallers == 2

\* Number of Load / LoadExtensions calls in a run of the resolution.
MaxLoads == 2

Callers == 1..NumCallers

(***************************************************************************)
(* Strings.                                                                *)
(***************************************************************************)
\* The characters in use, in ASCII order.
Alphabet ==
  << ".", "/", "0", "1", "2", "3", "4", "5", "6", "7", "8", "9",
     "A", "B", "C", "D", "E", "F", "G", "H", "I", "J", "K", "L", "M",
     "N", "O", "P", "Q", "R", "S", "T", "U", "V", "W", "X", "Y", "Z",
     "a", "b", "c", "d", "e", "f", "g", "h", "i", "j", "k", "l", "m",
     "n", "o", "p", "q", "r", "s", "t", "u", "v", "w", "x", "y", "z" >>

\* Position of a character in Alphabet (order-preserving with its byte value).
CodeTable ==
  [c \in {Alphabet[i] : i \in 1..Len(Alphabet)} |->
     CHOOSE i \in 1..Len(Alphabet) : Alphabet[i] = c]

Code(c) == CodeTable[c]

IsUpper(c) == Code(c) >= Code("A") /\ Code(c) <= Code("Z")

\* unicode.ToLower on an ASCII letter: 'A'..'Z' move to 'a'..'z'.
ToLowerChar(c) ==
  IF IsUpper(c) THEN Alphabet[Code(c) + (Code("a") - Code("A"))] ELSE c

\* strings.ToLower
ToLower(s) == [i \in 1..Len(s) |-> ToLowerChar(s[i])]

\* strings.HasPrefix
HasPrefix(s, prefix) ==
  /\ Len(prefix) <= Len(s)
  /\ SubSeq(s, 1, Len(prefix)) = prefix

\* strings.HasSuffix
HasSuffix(s, suffix) ==
  /\ Len(suffix) <= Len(s)
  /\ SubSeq(s, Len(s) - Len(suffix) + 1, Len(s)) = suffix

\* strings.Replace(s, old, new, -1): every non-overlapping occurrence of old,
\* from the left; old is never empty here.
RECURSIVE Replace(_, _, _)
Replace(s, old, new) ==
  IF Len(s) < Len(old) THEN s
  ELSE IF HasPrefix(s, old)
       THEN new \o Replace(SubSeq(s, Len(old) + 1, Len(s)), old, new)
       ELSE <<s[1]>> \o Replace(Tail(s), old, new)

\* filepath.Join of clean, non-empty elements.
Join(a, b) == a \o <<"/">> \o b

\* The directory part and the last element of a path (filepath.Split, os.FileInfo.Name).
LastSlash(p) ==
  IF \E i \in 1..Len(p) : p[i] = "/"
  THEN CHOOSE i \in 1..Len(p) : p[i] = "/" /\ \A j \in (i+1)..Len(p) : p[j] # "/"
  ELSE 0

BaseName(p) == SubSeq(p, LastSlash(p) + 1, Len(p))

\* The dir of filepath.Split: everything up to and including the last
\* separator, empty for a path without one.
DirName(p) == SubSeq(p, 1, LastSlash(p))

\* Rank of a character in a directory walk: filepath.Walk visits the names of a
\* directory in sorted order and descends depth-first, which orders full paths
\* as strings in which the separator sorts before every other character.
Rank(c) == IF c = "/" THEN 0 ELSE Code(c)

RECURSIVE WalkBefore(_, _)
WalkBefore(p, q) ==
  IF Len(p) = 0 THEN Len(q) > 0
  ELSE IF Len(q) = 0 THEN FALSE
  ELSE IF p[1] = q[1] THEN WalkBefore(Tail(p), Tail(q))
  ELSE Rank(p[1]) < Rank(q[1])

\* A finite set of paths as the sequence in walk order.
RECURSIVE SortWalk(_)
SortWalk(S) ==
  IF S = {} THEN <<>>
  ELSE LET first == CHOOSE p \in S : \A q \in S \ {p} : WalkBefore(p, q)
       IN <<first>> \o SortWalk(S \ {first})

(***************************************************************************)
(* String constants of the source.                                         *)
(***************************************************************************)
DotLua == <<".", "l", "u", "a">>
sWidget == <<"w", "i", "d", "g", "e", "t">>
sPage == <<"p", "a", "g", "e">>
sS == <<"s">>
sExtensions == <<"e", "x", "t", "e", "n", "s", "i", "o", "n", "s">>

\* "widgets" and "pages": the directories of the primary trees, and the
\* extType of the extension trees (s.Type + "s").
sWidgets == sWidget \o sS
sPages == sPage \o sS

\* A script file name: <name>.lua
Lua(name) == name \o DotLua

\* strings.TrimSuffix(s, suffix)
TrimSuffix(s, suffix) ==
  IF HasSuffix(s, suffix) THEN SubSeq(s, 1, Len(s) - Len(suffix)) ELSE s

\* The identifier LoadExtensions unloads for a script: the file name that
\* filepath.Split gives, without ".lua".
WidgetName(file) == TrimSuffix(BaseName(file), DotLua)

(***************************************************************************)
(* State.                                                                  *)
(***************************************************************************)
VARIABLES
  fsFiles,     \* the file system: path of each regular file |-> "ok" or "bad"
               \* ("bad": the Lua source fails to compile and to execute)
  fsDirs,      \* the directories that exist
  widgetList,  \* WidgetList.List: lowercase path |-> sequence of idle states
  inst,        \* every *glua.LState initialised so far, by id: the file it was
               \* initialised from and its database transaction status field
  rw,          \* WidgetList.rw: 0 when unlocked, else the goroutine holding it
  pc,          \* per request goroutine: its position
  arg,         \* per goroutine: the path argument of its Get / Put call
  path,        \* per goroutine: the local variable path (after ToLower)
  x,           \* per goroutine: the state Get is about to return (0: nil)
  err,         \* per goroutine: whether Get is about to return an error
  held,        \* per goroutine: the state it received from Get (0: none)
  result,      \* the last finished resolution call, whether it returned an error
               \* and whether that was the error of its database query
  added,       \* history: the <<bucket, state>> pairs put into the pool and not
               \* yet taken out again, oldest first
  was,         \* history, per goroutine: the transaction status its Put found
               \* set on the state ("none" outside the end of a Put)
  pageList,    \* CompiledPageList.List: path |-> compiled function proto
  extPages,    \* castro_extension_pages: the extension ids with enabled = 1
  extWidgets,  \* castro_extension_widgets: the extension ids with enabled = 1
  got,         \* what the last compiledStateList.Get / Exists call returned
  lastWrite,   \* history: lowercase path |-> the proto written last under a
               \* path of that lowercase form, since the registry was replaced
  loads,       \* the number of Load / LoadExtensions calls so far
  activeWidgets, \* util.Widgets.List: the identifiers of the active widgets
  rb,          \* the CompiledPageList rebuild in progress: its position, the
               \* rows of its query and the registry it started from
  players,     \* the data layer, table players: id |-> the row, by column
  storage,     \* the data layer, table player_storage of the player: key |-> value
  handle,      \* the player handle the script holds: whether it has one, the
               \* player __player refers to and the fields of the table
  ret,         \* the last call of the binding: its arguments, its outcome, the
               \* value pushed, the data statements issued and the error cause
  seen,        \* history: the outcomes PlayerConstructor gave a script, by the
               \* kind of error of the data layer
  gen,         \* history: the number of states that existed when WidgetList.List
               \* was last replaced by a new map (0: never)
  start        \* app.Start: the wait group counter, the position of Start and
               \* of each of its goroutines, and the history of the tasks

\* The variables of the other components.
laterVars == <<rb, players, storage, handle, ret, seen, gen, start>>

vars == <<fsFiles, fsDirs, widgetList, inst, rw, pc, arg, path, x, err, held,
          result, added, was, pageList, extPages, extWidgets, got, lastWrite,
          loads, activeWidgets, laterVars>>

\* The variables of the registry and of the resolution environment.
regVars == <<pageList, extPages, extWidgets, got, lastWrite, loads>>

(***************************************************************************)
(* The file system and the Lua runtime, as the code uses them.             *)
(***************************************************************************)
\* os.Stat(dir) succeeds.
DirExists(dir) == dir \in fsDirs

\* The regular files below dir, in the order filepath.Walk visits them.
WalkFiles(dir) ==
  SortWalk({f \in DOMAIN fsFiles : HasPrefix(f, dir \o <<"/">>)})

\* util.GetLuaFiles(dir): the *.lua files of the walk; an error when the walk
\* fails at its root.
GetLuaFilesErr(dir) == ~DirExists(dir)

GetLuaFiles(dir) ==
  SelectSeq(WalkFiles(dir), LAMBDA f : HasSuffix(BaseName(f), DotLua))

\* state.DoFile(file) returns nil: the file exists and its chunk runs.
DoFileOk(file) == file \in DOMAIN fsFiles /\ fsFiles[file] = "ok"

\* A fresh state after glua.NewState, GetApplicationState and DoFile(file).
NewState(file) == [script |-> file, txn |-> FALSE]

(***************************************************************************)
(* stateList                                                               *)
(***************************************************************************)
\* s.List[key] of a Go map: the zero value (a nil slice) for a missing key.
Bucket(list, key) == IF key \in DOMAIN list THEN list[key] ELSE <<>>

\* s.List[key] = slice
SetBucket(list, key, slice) ==
  [k \in DOMAIN list \cup {key} |-> IF k = key THEN slice ELSE list[k]]


\* Mutant of Save: the appended slice is not stored back into the map.
SaveDropped(list, key, id) == list

\* s.List[path] = append(s.List[path], state)
Save(list, key, id) == SetBucket(list, key, Append(Bucket(list, key), id))

\* The loop of Load over subtopicList from index i: the pool, the states
\* created and the history of additions when it ends, and whether it ended by
\* returning an error.
RECURSIVE LoadLoop(_, _, _, _, _)
LoadLoop(files, i, list, states, adds) ==
  IF i > Len(files)
  THEN [list |-> list, inst |-> states, added |-> adds, err |-> FALSE]
  ELSE IF ~DoFileOk(files[i])
  THEN [list |-> list, inst |-> states, added |-> adds, err |-> TRUE]
  ELSE LET key == ToLower(files[i])
           id == Len(states) + 1
       IN LoadLoop(files, i + 1, Save(list, key, id),
                   Append(states, NewState(files[i])),
                   Append(adds, <<key, id>>))

\* The empty map: make(map[string][]*glua.LState)
EmptyMap == [k \in {} |-> <<>>]

\* func (s *stateList) Load(dir string) error
Load(dir) ==
  /\ rw = 0
  /\ LET r == IF GetLuaFilesErr(dir)
              THEN [list |-> EmptyMap, inst |-> inst, added |-> <<>>, err |-> TRUE]
              ELSE LoadLoop(GetLuaFiles(dir), 1, EmptyMap, inst, <<>>)
     IN /\ widgetList' = r.list
        /\ inst' = r.inst
        /\ added' = r.added
        /\ result' = [op |-> "Load", err |-> r.err, query |-> FALSE,
                      scan |-> FALSE]
  /\ loads' = loads + 1
  /\ gen' = Len(inst)
  /\ UNCHANGED <<rb, players, storage, handle, ret, seen, start, activeWidgets,
                 fsFiles, fsDirs, rw, pc, arg, path, x, err, held, was,
                 pageList, extPages, extWidgets, got, lastWrite>>

\* Mutant of Lock: the lock is taken without waiting for its holder.
LockNoWait(c) == rw' = c

\* s.rw.Lock() in Get and Put. The mutex is not reentrant and grants the lock
\* to one goroutine at a time.
Lock(c) == rw = 0 /\ rw' = c

\* Get, up to the lock: path = strings.ToLower(path); s.rw.Lock()
GetLock(c) ==
  /\ pc[c] = "get_lock"
  /\ Lock(c)
  /\ pc' = [pc EXCEPT ![c] = "get_body"]
  /\ UNCHANGED <<laterVars, activeWidgets,
                 fsFiles, fsDirs, widgetList, inst, arg, path, x, err, held,
                 result, added, was, regVars>>


\* Mutant of GetColdStart: a cold start hands out the state built by the
\* previous cold start when there is one, instead of building its own.
GetColdStartShared(c) ==
  /\ pc[c] = "get_body"
  /\ Len(Bucket(widgetList, path[c])) = 0
  /\ DoFileOk(path[c])
  /\ inst' = IF Len(inst) > 0 THEN inst ELSE Append(inst, NewState(path[c]))
  /\ x' = [x EXCEPT ![c] = IF Len(inst) > 0 THEN Len(inst) ELSE 1]
  /\ err' = [err EXCEPT ![c] = FALSE]
  /\ pc' = [pc EXCEPT ![c] = "get_ret_new"]
  /\ UNCHANGED <<laterVars, activeWidgets,
                 fsFiles, fsDirs, widgetList, rw, arg, path, held, result,
                 added, was, regVars>>

\* Get, len(s.List[path]) == 0 and DoFile succeeds: return state, nil
GetColdStart(c) ==
  /\ pc[c] = "get_body"
  /\ Len(Bucket(widgetList, path[c])) = 0
  /\ DoFileOk(path[c])
  /\ inst' = Append(inst, NewState(path[c]))
  /\ x' = [x EXCEPT ![c] = Len(inst) + 1]
  /\ err' = [err EXCEPT ![c] = FALSE]
  /\ pc' = [pc EXCEPT ![c] = "get_ret_new"]
  /\ UNCHANGED <<laterVars, activeWidgets,
                 fsFiles, fsDirs, widgetList, rw, arg, path, held, result,
                 added, was, regVars>>


\* Mutant of GetColdStartFail: the state is put into the pool before DoFile is
\* tried, and stays there when DoFile fails.
GetColdStartFailPooled(c) ==
  /\ pc[c] = "get_body"
  /\ Len(Bucket(widgetList, path[c])) = 0
  /\ ~DoFileOk(path[c])
  /\ inst' = Append(inst, NewState(path[c]))
  /\ widgetList' = SetBucket(widgetList, path[c], <<Len(inst) + 1>>)
  /\ x' = [x EXCEPT ![c] = 0]
  /\ err' = [err EXCEPT ![c] = TRUE]
  /\ pc' = [pc EXCEPT ![c] = "get_ret_err"]
  /\ UNCHANGED <<laterVars, activeWidgets,
                 fsFiles, fsDirs, rw, arg, path, held, result, added, was, regVars>>

\* Get, len(s.List[path]) == 0 and DoFile fails: return nil, err
GetColdStartFail(c) ==
  /\ pc[c] = "get_body"
  /\ Len(Bucket(widgetList, path[c])) = 0
  /\ ~DoFileOk(path[c])
  /\ x' = [x EXCEPT ![c] = 0]
  /\ err' = [err EXCEPT ![c] = TRUE]
  /\ pc' = [pc EXCEPT ![c] = "get_ret_err"]
  /\ UNCHANGED <<laterVars, activeWidgets,
                 fsFiles, fsDirs, widgetList, inst, rw, arg, path, held,
                 result, added, was, regVars>>

\* s.List[path][len(s.List[path])-1]
LastOf(slice) == slice[Len(slice)]


\* Mutant of GetLast: the oldest state of the bucket is taken (FIFO).
GetFirst(c) ==
  /\ pc[c] = "get_body"
  /\ Len(Bucket(widgetList, path[c])) # 0
  /\ x' = [x EXCEPT ![c] = widgetList[path[c]][1]]
  /\ err' = [err EXCEPT ![c] = FALSE]
  /\ pc' = [pc EXCEPT ![c] = "get_slice"]
  /\ UNCHANGED <<laterVars, activeWidgets,
                 fsFiles, fsDirs, widgetList, inst, rw, arg, path, held,
                 result, added, was, regVars>>

\* Get, the pool has a state: x := s.List[path][len(s.List[path])-1]
GetLast(c) ==
  /\ pc[c] = "get_body"
  /\ Len(Bucket(widgetList, path[c])) # 0
  /\ x' = [x EXCEPT ![c] = LastOf(widgetList[path[c]])]
  /\ err' = [err EXCEPT ![c] = FALSE]
  /\ pc' = [pc EXCEPT ![c] = "get_slice"]
  /\ UNCHANGED <<laterVars, activeWidgets,
                 fsFiles, fsDirs, widgetList, inst, rw, arg, path, held,
                 result, added, was, regVars>>

\* s.List[path][0 : len(s.List[path])-1]
DropLast(slice) == SubSeq(slice, 1, Len(slice) - 1)

\* The history without its newest pair of bucket key.
RECURSIVE TakeNewest(_, _)
TakeNewest(adds, key) ==
  IF adds = <<>> THEN <<>>
  ELSE IF adds[Len(adds)][1] = key THEN SubSeq(adds, 1, Len(adds) - 1)
  ELSE Append(TakeNewest(SubSeq(adds, 1, Len(adds) - 1), key), adds[Len(adds)])

\* Get: s.List[path] = s.List[path][0 : len(s.List[path])-1]; return x, nil
GetSlice(c) ==
  /\ pc[c] = "get_slice"
  /\ Len(Bucket(widgetList, path[c])) # 0
  /\ widgetList' = SetBucket(widgetList, path[c], DropLast(widgetList[path[c]]))
  /\ added' = TakeNewest(added, path[c])
  /\ pc' = [pc EXCEPT ![c] = "get_ret_x"]
  /\ UNCHANGED <<laterVars, activeWidgets,
                 fsFiles, fsDirs, inst, rw, arg, path, x, err, held, result, was, regVars>>


\* Mutant of GetUnlock: the mutex is released by the last statement of Get
\* and not by a deferred call, so the return of a failed cold start keeps it.
GetUnlockLeak(c) ==
  /\ pc[c] \in {"get_ret_new", "get_ret_err", "get_ret_x"}
  /\ rw' = IF err[c] THEN rw ELSE 0
  /\ held' = [held EXCEPT ![c] = x[c]]
  /\ pc' = [pc EXCEPT ![c] = IF err[c] THEN "idle" ELSE "run"]
  /\ arg' = [arg EXCEPT ![c] = IF err[c] THEN <<>> ELSE @]
  /\ path' = [path EXCEPT ![c] = <<>>]
  /\ x' = [x EXCEPT ![c] = 0]
  /\ err' = [err EXCEPT ![c] = FALSE]
  /\ UNCHANGED <<laterVars, activeWidgets,
                 fsFiles, fsDirs, widgetList, inst, result, added, was, regVars>>

\* Get: the deferred s.rw.Unlock() and the return to the caller, which ends
\* the life of the call's locals.
GetUnlock(c) ==
  /\ pc[c] \in {"get_ret_new", "get_ret_err", "get_ret_x"}
  /\ rw' = 0
  /\ held' = [held EXCEPT ![c] = x[c]]
  /\ pc' = [pc EXCEPT ![c] = IF err[c] THEN "idle" ELSE "run"]
  /\ arg' = [arg EXCEPT ![c] = IF err[c] THEN <<>> ELSE @]
  /\ path' = [path EXCEPT ![c] = <<>>]
  /\ x' = [x EXCEPT ![c] = 0]
  /\ err' = [err EXCEPT ![c] = FALSE]
  /\ UNCHANGED <<laterVars, activeWidgets,
                 fsFiles, fsDirs, widgetList, inst, result, added, was, regVars>>

\* Put, up to the lock: path = strings.ToLower(path); s.rw.Lock()
PutLock(c) ==
  /\ pc[c] = "put_lock"
  /\ Lock(c)
  /\ pc' = [pc EXCEPT ![c] = "put_body"]
  /\ UNCHANGED <<laterVars, activeWidgets,
                 fsFiles, fsDirs, widgetList, inst, arg, path, x, err, held,
                 result, added, was, regVars>>


\* Mutant of ResetTransaction: the transaction status is left as it is.
ResetTransactionSkipped(states, id) == states

\* state.SetField(..., DatabaseTransactionStatusFieldName, glua.LBool(false))
ResetTransaction(states, id) == [states EXCEPT ![id].txn = FALSE]

\* Put, under the lock: reset the transaction status and save the state.
PutBody(c) ==
  /\ pc[c] = "put_body"
  /\ inst' = ResetTransaction(inst, held[c])
  /\ widgetList' = Save(widgetList, path[c], held[c])
  /\ added' = Append(added, <<path[c], held[c]>>)
  /\ was' = [was EXCEPT ![c] = IF inst[held[c]].txn THEN "set" ELSE "clear"]
  /\ pc' = [pc EXCEPT ![c] = "put_unlock"]
  /\ UNCHANGED <<laterVars, activeWidgets,
                 fsFiles, fsDirs, rw, arg, path, x, err, held, result, regVars>>

\* Put: the deferred s.rw.Unlock() and the return to the caller, which ends
\* the life of the call's locals and the caller's hold on the state.
PutUnlock(c) ==
  /\ pc[c] = "put_unlock"
  /\ rw' = 0
  /\ held' = [held EXCEPT ![c] = 0]
  /\ pc' = [pc EXCEPT ![c] = "idle"]
  /\ arg' = [arg EXCEPT ![c] = <<>>]
  /\ path' = [path EXCEPT ![c] = <<>>]
  /\ was' = [was EXCEPT ![c] = "none"]
  /\ UNCHANGED <<laterVars, activeWidgets,
                 fsFiles, fsDirs, widgetList, inst, x, err, result, added, regVars>>

(***************************************************************************)
(* The request goroutines: the callers of Get and Put.                     *)
(***************************************************************************)
\* A request calls Get(p): the call starts by lowering the path.
CallGet(c, p) ==
  /\ pc[c] = "idle"
  /\ arg' = [arg EXCEPT ![c] = p]
  /\ path' = [path EXCEPT ![c] = ToLower(p)]
  /\ x' = [x EXCEPT ![c] = 0]
  /\ err' = [err EXCEPT ![c] = FALSE]
  /\ pc' = [pc EXCEPT ![c] = "get_lock"]
  /\ UNCHANGED <<laterVars, activeWidgets,
                 fsFiles, fsDirs, widgetList, inst, rw, held, result, added, was, regVars>>

\* The request runs the script in the state it holds; the script may leave the
\* database transaction status set (db:begin without commit) or not. It then
\* calls Put(state, p) with the state it holds and the path it gave to Get: the
\* call starts by lowering the path.
Run(c, t) ==
  /\ pc[c] = "run"
  /\ inst' = [inst EXCEPT ![held[c]].txn = t]
  /\ path' = [path EXCEPT ![c] = ToLower(arg[c])]
  /\ pc' = [pc EXCEPT ![c] = "put_lock"]
  /\ UNCHANGED <<laterVars, activeWidgets,
                 fsFiles, fsDirs, widgetList, rw, arg, x, err, held, result,
                 added, was, regVars>>

(***************************************************************************)
(* The player binding: Lua values, the data layer and the handle.          *)
(***************************************************************************)
\* The values a script passes and receives (lua.LValue).
LNil == [t |-> "nil"]
LBool(b) == [t |-> "boolean", v |-> b]
LNumber(n) == [t |-> "number", v |-> n]
LString(s) == [t |-> "string", v |-> s]
\* The addresses the allocator gives to tables: %p prints them in hexadecimal.
Addresses == {<<"0", "x", "c", "0", "0", "0", "0", "1", "0">>,
              <<"0", "x", "c", "0", "0", "0", "0", "2", "0">>}

\* A table of the script (*lua.LTable) at the address a.
LTable(a) == [t |-> "table", addr |-> a]

\* The table createPlayerMetaTable returns, as a value of the script.
LPlayer(a) == [t |-> "table", v |-> "player", addr |-> a]

\* The decimal digits.
DigitChars == <<"0", "1", "2", "3", "4", "5", "6", "7", "8", "9">>
IsDigit(c) == \E d \in 1..10 : DigitChars[d] = c

\* math.MinInt64 and math.MaxInt64, the ends of the range of int (64 bits).
MinInt64 == -(2^63)
MaxInt64 == 2^63 - 1

\* An integer in decimal, as lua.LNumber.String() formats it.
RECURSIVE FormatInt(_)
FormatInt(n) ==
  IF n < 0 THEN <<"-">> \o FormatInt(0 - n)
  ELSE IF n < 10 THEN <<DigitChars[n + 1]>>
  ELSE FormatInt(n \div 10) \o <<DigitChars[(n % 10) + 1]>>

\* strings.Trim(number, " \t\n")
BlankChars == {" ", "\t", "\n"}
RECURSIVE TrimLeft(_)
TrimLeft(s) ==
  IF s # <<>> /\ s[1] \in BlankChars THEN TrimLeft(Tail(s)) ELSE s
RECURSIVE TrimRight(_)
TrimRight(s) ==
  IF s # <<>> /\ s[Len(s)] \in BlankChars
  THEN TrimRight(SubSeq(s, 1, Len(s) - 1)) ELSE s
Trim(s) == TrimRight(TrimLeft(s))

\* The digits of the bases up to 16 (strconv: '0'..'9', then the letters in
\* either case).
LowerDigits == <<"0", "1", "2", "3", "4", "5", "6", "7", "8", "9",
                 "a", "b", "c", "d", "e", "f">>
UpperDigits == <<"0", "1", "2", "3", "4", "5", "6", "7", "8", "9",
                 "A", "B", "C", "D", "E", "F">>
IsDigitOf(c, base) ==
  \E d \in 1..base : c = LowerDigits[d] \/ c = UpperDigits[d]
DigitOf(c) ==
  (CHOOSE d \in 1..16 : c = LowerDigits[d] \/ c = UpperDigits[d]) - 1

\* strconv.underscoreOK(s): an underscore stands between two digits, or
\* between a base prefix and a digit. i: the kind of the character before.
RECURSIVE UnderscoreScan(_, _, _)
UnderscoreScan(s, hex, i) ==
  IF s = <<>> THEN i # "_"
  ELSE IF IsDigitOf(s[1], IF hex THEN 16 ELSE 10)
  THEN UnderscoreScan(Tail(s), hex, "0")
  ELSE IF s[1] = "_" THEN i = "0" /\ UnderscoreScan(Tail(s), hex, "_")
  ELSE i # "_" /\ UnderscoreScan(Tail(s), hex, "!")

underscoreOK(s) ==
  LET u == IF s # <<>> /\ s[1] \in {"-", "+"} THEN Tail(s) ELSE s
  IN IF Len(u) >= 2 /\ u[1] = "0" /\ u[2] \in {"b", "B", "o", "O", "x", "X"}
     THEN UnderscoreScan(SubSeq(u, 3, Len(u)), u[2] \in {"x", "X"}, "0")
     ELSE UnderscoreScan(u, FALSE, "^")

\* The number the digits of s denote in the base, underscores skipped.
RECURSIVE DigitsValue(_, _, _)
DigitsValue(s, base, n) ==
  IF s = <<>> THEN n
  ELSE IF s[1] = "_" THEN DigitsValue(Tail(s), base, n)
  ELSE DigitsValue(Tail(s), base, n * base + DigitOf(s[1]))

\* A float64 read from a string: class "finite" is m * radix^p, negated if
\* neg; "inf" is the infinity of the sign; "nan" is no number.
Number(class, neg, m, radix, p) ==
  [ok |-> TRUE, class |-> class, neg |-> neg, m |-> m, radix |-> radix,
   p |-> p]

\* No number: the syntax error of strconv.
NoNumber == [ok |-> FALSE, class |-> "none", neg |-> FALSE, m |-> 0,
             radix |-> 10, p |-> 0]

\* strconv.ParseUint(s, 0, 64): the base is read from the prefix of s: 0b, 0o,
\* 0x, a leading 0 for octal, decimal otherwise. (Not modelled: the range
\* error; the integers of the model are those TLC holds.)
ParseUint(s) ==
  IF s = <<>> THEN NoNumber
  ELSE LET lettered == Len(s) >= 3 /\ s[1] = "0"
                         /\ s[2] \in {"b", "B", "o", "O", "x", "X"}
           base == IF s[1] # "0" THEN 10
                   ELSE IF lettered /\ s[2] \in {"b", "B"} THEN 2
                   ELSE IF lettered /\ s[2] \in {"x", "X"} THEN 16
                   ELSE 8
           digits == IF s[1] # "0" THEN s
                     ELSE IF lettered THEN SubSeq(s, 3, Len(s))
                     ELSE Tail(s)
           underscores == \E k \in 1..Len(digits) : digits[k] = "_"
       IN IF /\ \A k \in 1..Len(digits) :
                  digits[k] = "_" \/ IsDigitOf(digits[k], base)
             /\ underscores => underscoreOK(s)
          THEN Number("finite", FALSE, DigitsValue(digits, base, 0), 10, 0)
          ELSE NoNumber

\* strconv.ParseInt(s, 0, 64)
ParseInt(s) ==
  IF s = <<>> THEN NoNumber
  ELSE LET un == ParseUint(IF s[1] \in {"+", "-"} THEN Tail(s) ELSE s)
       IN IF un.ok THEN Number("finite", s[1] = "-", un.m, 10, 0)
          ELSE NoNumber

\* strconv.special(s): inf and infinity in either case of each letter, with
\* or without a sign, and nan without one.
special(s) ==
  LET signed == s # <<>> /\ s[1] \in {"+", "-"}
      u == IF signed THEN Tail(s) ELSE s
      lower == <<"i", "n", "f", "i", "n", "i", "t", "y">>
      upper == <<"I", "N", "F", "I", "N", "I", "T", "Y">>
      nanLower == <<"n", "a", "n">>
      nanUpper == <<"N", "A", "N">>
  IN IF /\ Len(u) \in {3, 8}
        /\ \A i \in 1..Len(u) : u[i] \in {lower[i], upper[i]}
     THEN Number("inf", signed /\ s[1] = "-", 0, 10, 0)
     ELSE IF /\ ~signed
             /\ Len(u) = 3
             /\ \A i \in 1..3 : u[i] \in {nanLower[i], nanUpper[i]}
     THEN Number("nan", FALSE, 0, 10, 0)
     ELSE NoNumber

\* The index of the first character of s that marks the exponent, or
\* Len(s) + 1.
RECURSIVE ExponentAt(_, _, _)
ExponentAt(s, k, marks) ==
  IF k > Len(s) \/ s[k] \in marks THEN k ELSE ExponentAt(s, k + 1, marks)

\* strconv.ParseFloat(s, 64): inf, infinity and nan; else a sign and then a
\* decimal number (digits with at most one point, and an exponent of ten
\* after e) or, after 0x, a hexadecimal one (hexadecimal digits with at most
\* one point, and the exponent of two after p, which it must have). (Not
\* modelled: the rounding to 53 bits and the range error.)
ParseFloat(s) ==
  LET neg == s # <<>> /\ s[1] = "-"
      u == IF s # <<>> /\ s[1] \in {"+", "-"} THEN Tail(s) ELSE s
      hex == Len(u) > 2 /\ u[1] = "0" /\ u[2] \in {"x", "X"}
      base == IF hex THEN 16 ELSE 10
      body == IF hex THEN SubSeq(u, 3, Len(u)) ELSE u
      at == ExponentAt(body, 1, IF hex THEN {"p", "P"} ELSE {"e", "E"})
      mantissa == SubSeq(body, 1, at - 1)
      points == {k \in 1..Len(mantissa) : mantissa[k] = "."}
      whole == SelectSeq(mantissa, LAMBDA c : c # ".")
      fraction == IF points = {} THEN 0
                  ELSE Len(SelectSeq(SubSeq(mantissa,
                                            (CHOOSE k \in points : TRUE) + 1,
                                            Len(mantissa)),
                                     LAMBDA c : c # "_"))
      signed == at + 1 <= Len(body) /\ body[at + 1] \in {"+", "-"}
      exponent == SubSeq(body, IF signed THEN at + 2 ELSE at + 1, Len(body))
      e == IF at > Len(body) THEN 0
           ELSE IF signed /\ body[at + 1] = "-"
           THEN 0 - DigitsValue(exponent, 10, 0)
           ELSE DigitsValue(exponent, 10, 0)
  IN IF special(s).ok THEN special(s)
     ELSE IF /\ \A k \in 1..Len(mantissa) :
                  IsDigitOf(mantissa[k], base) \/ mantissa[k] \in {"_", "."}
             /\ Cardinality(points) <= 1
             /\ \E k \in 1..Len(mantissa) : IsDigitOf(mantissa[k], base)
             /\ hex => at <= Len(body)
             /\ at <= Len(body) =>
                  /\ exponent # <<>>
                  /\ IsDigit(exponent[1])
                  /\ \A k \in 1..Len(exponent) :
                       IsDigit(exponent[k]) \/ exponent[k] = "_"
             /\ (\E k \in 1..Len(u) : u[k] = "_") => underscoreOK(s)
     THEN IF hex
          THEN Number("finite", neg, DigitsValue(whole, 16, 0), 2,
                      e - 4 * fraction)
          ELSE Number("finite", neg, DigitsValue(whole, 10, 0), 10,
                      e - fraction)
     ELSE NoNumber

\* parseNumber(number) of gopher-lua: the blanks are trimmed, then ParseInt
\* with the base of the prefix, then ParseFloat.
parseNumber(number) ==
  LET trimmed == Trim(number)
  IN IF ParseInt(trimmed).ok THEN ParseInt(trimmed) ELSE ParseFloat(trimmed)

RECURSIVE Pow(_, _)
Pow(b, k) == IF k = 0 THEN 1 ELSE b * Pow(b, k - 1)

\* int(n) for an LNumber n, as the set of the ints a build gives. For a
\* finite n the fraction is cut off. An infinity and a NaN are outside the
\* range of int and the result depends on the build: on amd64 the least int
\* for each of them; on arm64 the greatest int for +Inf, the least for -Inf
\* and 0 for a NaN.
Truncate(n) ==
  IF n.class = "finite"
  THEN LET abs == IF n.p >= 0 THEN n.m * Pow(n.radix, n.p)
                  ELSE n.m \div Pow(n.radix, 0 - n.p)
       IN {IF n.neg THEN 0 - abs ELSE abs}
  ELSE IF n.class = "nan" THEN {MinInt64, 0}
  ELSE IF n.neg THEN {MinInt64}
  ELSE {MinInt64, MaxInt64}

\* L.ToInt(n), L.ToInt64(n), as the set of the ints the call gives: the
\* number, the int of the number a string parses to, or 0.
ToInt(lv) ==
  IF lv.t = "number" THEN {lv.v}
  ELSE IF lv.t = "string" /\ parseNumber(lv.v).ok
  THEN Truncate(parseNumber(lv.v))
  ELSE {0}

\* L.ToString(n): the string, a number formatted, or "".
LStateToString(lv) ==
  IF lv.t = "string" THEN lv.v
  ELSE IF lv.t = "number" THEN FormatInt(lv.v)
  ELSE <<>>

\* lua.LValue.String(): for a table "table: " and its address (%p).
ValueString(lv) ==
  IF lv.t = "string" THEN lv.v
  ELSE IF lv.t = "number" THEN FormatInt(lv.v)
  ELSE IF lv.t = "nil" THEN <<"n", "i", "l">>
  ELSE IF lv.t = "boolean"
  THEN IF lv.v THEN <<"t", "r", "u", "e">> ELSE <<"f", "a", "l", "s", "e">>
  ELSE <<"t", "a", "b", "l", "e", ":", " ">> \o lv.addr

\* html.EscapeString(s)
EscapeChar(c) ==
  IF c = "&" THEN <<"&", "a", "m", "p", ";">>
  ELSE IF c = "<" THEN <<"&", "l", "t", ";">>
  ELSE IF c = ">" THEN <<"&", "g", "t", ";">>
  ELSE IF c = "'" THEN <<"&", "#", "3", "9", ";">>
  ELSE IF c = "\"" THEN <<"&", "#", "3", "4", ";">>
  ELSE <<c>>

RECURSIVE EscapeString(_)
EscapeString(s) ==
  IF s = <<>> THEN <<>> ELSE EscapeChar(s[1]) \o EscapeString(Tail(s))

\* Columns of the players table and names scripts use.
cName == <<"n", "a", "m", "e">>
cLevel == <<"l", "e", "v", "e", "l">>
cBalance == <<"b", "a", "l", "a", "n", "c", "e">>
cUnknown == <<"u", "n", "k", "n", "o", "w", "n", "_", "c", "o", "l">>
sBob == <<"b", "o", "b">>
sAlice == <<"a", "l", "i", "c", "e">>

\* INFORMATION_SCHEMA.COLUMNS for the players table: the live column catalog.
Catalog == {cName, cLevel, cBalance}

\* The numeric columns.
NumericColumns == {cLevel, cBalance}

\* The public fields of models.Player and the column each is read from.
PlayerFields == {"Name", "Level", "Balance"}
ColumnOf(f) ==
  IF f = "Name" THEN cName ELSE IF f = "Level" THEN cLevel ELSE cBalance

\* A nil *models.Player, and the player loaded from the row of id.
NilPlayer == [ptr |-> "nil", ID |-> 0, row |-> <<>>]
LoadPlayer(table, id) == [ptr |-> "player", ID |-> id, row |-> table[id]]

\* StructToTable(player): the public fields of the struct as script values.
StructToTable(player) ==
  [f \in PlayerFields |->
     IF ColumnOf(f) \in NumericColumns THEN LNumber(player.row[ColumnOf(f)])
     ELSE LString(player.row[ColumnOf(f)])]

\* A table without the fields of a player.
NoFields == [f \in {} |-> LNil]

\* The script has no handle.
NoHandle == [bound |-> FALSE, player |-> NilPlayer, fields |-> NoFields]

\* createPlayerMetaTable(player, L) and updatePlayerMetaTable(player, L, t):
\* __player refers to player and the table has the fields of StructToTable.
PlayerMetaTable(player) ==
  [bound |-> TRUE, player |-> player, fields |-> StructToTable(player)]

\* The data statements.
SelectPlayer(by, key) == [stmt |-> "SELECT", from |-> "players", by |-> by, key |-> key]
SelectColumn(col, id) == [stmt |-> "SELECT", from |-> "players", col |-> col, id |-> id]
UpdateColumn(col, val, id) == [stmt |-> "UPDATE", from |-> "players", col |-> col, val |-> val, id |-> id]
SelectCatalog == [stmt |-> "SELECT", from |-> "INFORMATION_SCHEMA.COLUMNS"]
SelectStorage(id, key) == [stmt |-> "SELECT", from |-> "player_storage", id |-> id, key |-> key]
UpdateStorage(id, key, val) == [stmt |-> "UPDATE", from |-> "player_storage", id |-> id, key |-> key, val |-> val]

\* The rows of the players table with the given name.
IdsByName(table, name) == {id \in DOMAIN table : table[id][cName] = name}

\* models.GetPlayerByID(id): the player, or an error: no row, or a failure of
\* the data layer.
GetPlayerByID(table, id, fail) ==
  IF fail THEN [player |-> NilPlayer, err |-> "data"]
  ELSE IF id \notin DOMAIN table THEN [player |-> NilPlayer, err |-> "norows"]
  ELSE [player |-> LoadPlayer(table, id), err |-> "nil"]

\* models.GetPlayerByName(name)
GetPlayerByName(table, name, fail) ==
  IF fail THEN [player |-> NilPlayer, err |-> "data"]
  ELSE IF IdsByName(table, name) = {} THEN [player |-> NilPlayer, err |-> "norows"]
  ELSE [player |-> LoadPlayer(table, CHOOSE id \in IdsByName(table, name) : TRUE),
        err |-> "nil"]

\* func playerTableConstructor(i interface{}) (*models.Player, error), for an
\* i that is an int64 or a string (the callers pass no other).
playerTableConstructor(table, i, fail) ==
  IF i.kind = "int64" THEN GetPlayerByID(table, i.v, fail)
  ELSE GetPlayerByName(table, i.v, fail)

\* The variables of the script engine (state.go).
scriptVars == <<fsFiles, fsDirs, widgetList, inst, rw, pc, arg, path, x, err,
                held, result, added, was, pageList, extPages, extWidgets, got,
                lastWrite, loads, activeWidgets, rb, gen>>

\* The variables the binding leaves alone.
engineVars == <<scriptVars, start>>

\* No method has been called.
NoCall == [op |-> "none", args |-> <<>>, outcome |-> "none", value |-> LNil,
           stmts |-> <<>>, cause |-> "nil"]

\* The data layer with the player bob, and a script without a handle.
InitBridge ==
  /\ players = (1 :> ((cName :> sBob) @@ (cLevel :> 1) @@ (cBalance :> 1)))
  /\ storage = [k \in {} |-> 0]
  /\ handle = NoHandle
  /\ ret = NoCall
  /\ seen = [c \in {"norows", "data"} |-> {}]

\* func PlayerConstructor(L *lua.LState) int, called with v; fail: the call
\* of the data layer fails; a: the address of the table NewTable allocates.
\* For a v that is neither a number nor a string no player is loaded and err
\* stays nil, and createPlayerMetaTable is called with a nil player:
\* StructToTable panics on the nil pointer, or it returns a table without
\* fields and the handle has a nil __player.
PlayerConstructor(v, fail, a) ==
  /\ fail => v.t \in {"number", "string"}
  /\ \E id \in ToInt(v) :
     LET r == IF v.t = "number"
              THEN playerTableConstructor(players,
                                          [kind |-> "int64", v |-> id], fail)
              ELSE IF v.t = "string"
              THEN playerTableConstructor(players,
                                          [kind |-> "string",
                                           v |-> LStateToString(v)], fail)
              ELSE [player |-> NilPlayer, err |-> "nil"]
         stmts == IF v.t = "number" THEN <<SelectPlayer("id", id)>>
                  ELSE IF v.t = "string" THEN <<SelectPlayer("name", v.v)>>
                  ELSE <<>>
         call == [op |-> "PlayerConstructor", args |-> <<v>>, stmts |-> stmts,
                  cause |-> r.err]
     IN IF r.err # "nil"
        THEN /\ handle' = NoHandle
             /\ ret' = call @@ [outcome |-> "return", value |-> LNil]
             /\ seen' = [seen EXCEPT ![r.err] =
                           @ \cup {[outcome |-> "return", value |-> LNil]}]
        ELSE IF r.player.ptr = "nil"
        THEN /\ \/ /\ handle' = NoHandle
                   /\ ret' = call @@ [outcome |-> "panic", value |-> LNil]
                \/ /\ handle' = [bound |-> TRUE, player |-> NilPlayer,
                                 fields |-> NoFields]
                   /\ ret' = call @@ [outcome |-> "return", value |-> LPlayer(a)]
             /\ UNCHANGED seen
        ELSE /\ handle' = PlayerMetaTable(r.player)
             /\ ret' = call @@ [outcome |-> "return", value |-> LPlayer(a)]
             /\ UNCHANGED seen
  /\ UNCHANGED <<engineVars, players, storage>>

\* getPlayerObject(L) gives the *models.Player of __player: a player, or the
\* nil pointer PlayerConstructor stored.
HasPlayer == handle.bound /\ handle.player.ptr = "player"

\* A method dereferences the nil player (player.ID): the Go runtime panics.
\* stmts: the statements issued before.
NilDereference(call, stmts) ==
  call @@ [outcome |-> "panic", value |-> LNil, stmts |-> stmts,
           cause |-> "nil"]

\* The script reads a field of the handle: the value the table has, nil for
\* a field the table does not have.
FieldRead(f) ==
  /\ handle.bound
  /\ ret' = [op |-> "FieldRead", args |-> <<LString(f)>>, outcome |-> "return",
             value |-> IF f \in DOMAIN handle.fields THEN handle.fields[f]
                       ELSE LNil,
             stmts |-> <<>>, cause |-> "nil"]
  /\ UNCHANGED <<engineVars, players, storage, handle, seen>>

\* func GetPlayerBankBalance(L *lua.LState) int
GetPlayerBankBalance(fail) ==
  /\ handle.bound
  /\ fail => HasPlayer
  /\ LET id == handle.player.ID
         call == [op |-> "GetPlayerBankBalance", args |-> <<>>]
         query == [stmts |-> <<SelectColumn(cBalance, id)>>,
                   cause |-> IF fail THEN "data" ELSE "nil"]
     IN ret' = IF ~HasPlayer THEN NilDereference(call, <<>>)
               ELSE IF fail
               THEN call @@ query @@ [outcome |-> "raise", value |-> LNil]
               ELSE call @@ query @@
                      [outcome |-> "return",
                       value |-> LNumber(players[id][cBalance])]
  /\ UNCHANGED <<engineVars, players, storage, handle, seen>>

\* func SetPlayerBankBalance(L *lua.LState) int, called with a. The new
\* balance is L.ToInt(2), whatever the type of a.
SetPlayerBankBalance(a, fail) ==
  /\ handle.bound
  /\ fail => HasPlayer
  /\ \E newBalance \in ToInt(a) :
     LET id == handle.player.ID
         call == [op |-> "SetPlayerBankBalance", args |-> <<a>>]
         update == [stmts |-> <<UpdateColumn(cBalance, newBalance, id)>>,
                    cause |-> IF fail THEN "data" ELSE "nil", value |-> LNil]
     IN IF ~HasPlayer
        THEN /\ ret' = NilDereference(call, <<>>)
             /\ UNCHANGED players
        ELSE IF fail
        THEN /\ ret' = call @@ update @@ [outcome |-> "raise"]
             /\ UNCHANGED players
        ELSE /\ ret' = call @@ update @@ [outcome |-> "return"]
             /\ players' = [players EXCEPT ![id][cBalance] = newBalance]
  /\ UNCHANGED <<engineVars, storage, handle, seen>>

\* func GetPlayerStorageValue(L *lua.LState) int, called with key; a: the
\* address of the table StructToTable allocates.
GetPlayerStorageValue(key, fail, a) ==
  /\ handle.bound
  /\ fail => HasPlayer /\ key.t = "number"
  /\ \E k \in ToInt(key) :
     LET id == handle.player.ID
         call == [op |-> "GetPlayerStorageValue", args |-> <<key>>]
     IN ret' =
          IF key.t # "number"
          THEN call @@ [outcome |-> "raise", value |-> LNil, stmts |-> <<>>,
                        cause |-> "nil"]
          ELSE IF ~HasPlayer THEN NilDereference(call, <<>>)
          ELSE IF fail \/ k \notin DOMAIN storage
          THEN call @@ [outcome |-> "raise", value |-> LNil,
                        stmts |-> <<SelectStorage(id, k)>>,
                        cause |-> "data"]
          ELSE call @@ [outcome |-> "return",
                        value |-> [t |-> "table", v |-> storage[k],
                                   addr |-> a],
                        stmts |-> <<SelectStorage(id, k)>>,
                        cause |-> "nil"]
  /\ UNCHANGED <<engineVars, players, storage, handle, seen>>

\* func SetPlayerStorageValue(L *lua.LState) int, called with key and val.
SetPlayerStorageValue(key, val, fail) ==
  /\ handle.bound
  /\ fail => HasPlayer /\ key.t = "number" /\ val.t = "number"
  /\ \E k \in ToInt(key), n \in ToInt(val) :
     LET id == handle.player.ID
         call == [op |-> "SetPlayerStorageValue", args |-> <<key, val>>]
         update == [stmts |-> <<UpdateStorage(id, k, n)>>, value |-> LNil]
     IN IF key.t # "number" \/ val.t # "number"
        THEN /\ ret' = call @@ [outcome |-> "raise", stmts |-> <<>>,
                                cause |-> "nil", value |-> LNil]
             /\ UNCHANGED storage
        ELSE IF ~HasPlayer
        THEN /\ ret' = NilDereference(call, <<>>)
             /\ UNCHANGED storage
        ELSE IF fail
        THEN /\ ret' = call @@ update @@ [outcome |-> "raise", cause |-> "data"]
             /\ UNCHANGED storage
        ELSE /\ ret' = call @@ update @@ [outcome |-> "return", cause |-> "nil"]
             /\ storage' = [j \in DOMAIN storage \cup {k} |->
                              IF j = k THEN n ELSE storage[j]]
  /\ UNCHANGED <<engineVars, players, handle, seen>>

\* Mutant of Allowed: every field name passes.
AllowedAny(fieldName, nameList) == TRUE

\* The loop over the column list: column.Name == fieldName for some column.
Allowed(fieldName, nameList) == \E column \in nameList : column = fieldName

\* The data layer reads the string it is given for a numeric column as a
\* decimal number.
IsDecimal(str) == str # <<>> /\ \A i \in 1..Len(str) : IsDigit(str[i])

\* The value an UPDATE stores in a column for the string it is given, and
\* whether the statement is accepted at all.
UpdateAccepted(col, str) ==
  col \in Catalog /\ (col \in NumericColumns => IsDecimal(str))
Stored(col, str) ==
  IF col \in NumericColumns THEN DigitsValue(str, 10, 0) ELSE str

\* func SetPlayerCustomField(L *lua.LState) int, called with name and val.
\* failAt: which of its calls of the data layer fails (0: none). With a nil
\* player the arguments of the UPDATE cannot be evaluated (player.ID).
SetPlayerCustomField(name, val, failAt) ==
  /\ handle.bound
  /\ failAt > 1 => HasPlayer
  /\ LET id == handle.player.ID
         fieldName == LStateToString(name)
         col == EscapeString(fieldName)
         str == ValueString(val)
         update == UpdateColumn(col, str, id)
         call == [op |-> "SetPlayerCustomField", args |-> <<name, val>>,
                  value |-> LNil]
     IN IF failAt = 1
        THEN /\ ret' = call @@ [outcome |-> "raise", cause |-> "data",
                                stmts |-> <<SelectCatalog>>]
             /\ UNCHANGED <<players, handle>>
        ELSE IF ~Allowed(fieldName, Catalog)
        THEN /\ ret' = call @@ [outcome |-> "return", cause |-> "nil",
                                stmts |-> <<SelectCatalog>>]
             /\ UNCHANGED <<players, handle>>
        ELSE IF ~HasPlayer
        THEN /\ ret' = NilDereference(call, <<SelectCatalog>>)
             /\ UNCHANGED <<players, handle>>
        ELSE IF failAt = 2 \/ ~UpdateAccepted(col, str)
        THEN /\ ret' = call @@ [outcome |-> "raise", cause |-> "data",
                                stmts |-> <<SelectCatalog, update>>]
             /\ UNCHANGED <<players, handle>>
        ELSE LET table == [players EXCEPT ![id][col] = Stored(col, str)]
                 r == GetPlayerByID(table, id, failAt = 3)
                 stmts == <<SelectCatalog, update, SelectPlayer("id", id)>>
             IN /\ players' = table
                /\ IF r.err # "nil"
                   THEN /\ ret' = call @@ [outcome |-> "raise",
                                           cause |-> r.err, stmts |-> stmts]
                        /\ UNCHANGED handle
                   ELSE /\ ret' = call @@ [outcome |-> "return",
                                           cause |-> "nil", stmts |-> stmts]
                        /\ handle' = PlayerMetaTable(r.player)
  /\ UNCHANGED <<engineVars, storage, seen>>

\* func GetPlayerCustomField(L *lua.LState) int, called with name. With a nil
\* player the argument of the SELECT cannot be evaluated (player.ID).
GetPlayerCustomField(name, failAt) ==
  /\ handle.bound
  /\ failAt > 1 => HasPlayer
  /\ LET id == handle.player.ID
         fieldName == LStateToString(name)
         col == EscapeString(fieldName)
         call == [op |-> "GetPlayerCustomField", args |-> <<name>>]
     IN ret' =
          IF failAt = 1
          THEN call @@ [outcome |-> "raise", value |-> LNil, cause |-> "data",
                        stmts |-> <<SelectCatalog>>]
          ELSE IF ~Allowed(fieldName, Catalog)
          THEN call @@ [outcome |-> "return", value |-> LNil, cause |-> "nil",
                        stmts |-> <<SelectCatalog>>]
          ELSE IF ~HasPlayer THEN NilDereference(call, <<SelectCatalog>>)
          ELSE IF failAt = 2 \/ col \notin Catalog
          THEN call @@ [outcome |-> "raise", value |-> LNil, cause |-> "data",
                        stmts |-> <<SelectCatalog, SelectColumn(col, id)>>]
          ELSE call @@ [outcome |-> "return", cause |-> "nil",
                        value |-> LString(IF col \in NumericColumns
                                          THEN FormatInt(players[id][col])
                                          ELSE players[id][col]),
                        stmts |-> <<SelectCatalog, SelectColumn(col, id)>>]
  /\ UNCHANGED <<engineVars, players, storage, handle, seen>>

\* The arguments scripts call the binding with.
BindArgs == {LNumber(1), LNumber(2), LString(sBob), LString(sAlice), LNil,
             LBool(TRUE)} \cup {LTable(a) : a \in Addresses}
\* The balances are strings and numbers whose ints are small: the model
\* checker evaluates integers of 32 bits, and the int of an infinity or of a
\* NaN is outside them.
BalanceArgs == {LNumber(2), LString(sBob), LString(<<"0", "1", "0">>),
                LString(<<"0", "x", "1", "p", "1">>)}
StorageKeyArgs == {LNumber(1), LString(sBob)}
StorageValueArgs == {LNumber(2), LNil}
FieldNameArgs == {LString(cLevel), LString(cUnknown), LNumber(1)}
FieldValueArgs == {LNumber(2)} \cup {LTable(a) : a \in Addresses}
FieldArgs ==
  (FieldNameArgs \X FieldValueArgs)
    \cup {<<LString(cName), LTable(CHOOSE a \in Addresses : TRUE)>>}

NextPlayer ==
  \/ \E v \in BindArgs, fail \in BOOLEAN, a \in Addresses :
       PlayerConstructor(v, fail, a)
  \/ \E f \in PlayerFields : FieldRead(f)
  \/ \E fail \in BOOLEAN : GetPlayerBankBalance(fail)
  \/ \E a \in BalanceArgs, fail \in BOOLEAN : SetPlayerBankBalance(a, fail)
  \/ \E k \in StorageKeyArgs, fail \in BOOLEAN, a \in Addresses :
       GetPlayerStorageValue(k, fail, a)
  \/ \E k \in StorageKeyArgs, v \in StorageValueArgs, fail \in BOOLEAN :
       SetPlayerStorageValue(k, v, fail)
  \/ \E f \in FieldArgs, failAt \in 0..3 :
       SetPlayerCustomField(f[1], f[2], failAt)
  \/ \E n \in FieldNameArgs, failAt \in 0..2 : GetPlayerCustomField(n, failAt)

(***************************************************************************)
(* Startup: app.Start, its wait group and its goroutines.                  *)
(***************************************************************************)
\* The tasks the first goroutine of Start calls one after the other.
ChainTasks ==
  <<"loadAppConfig", "loadLUAConfig", "connectDatabase", "migrateDatabase",
    "loadMap", "loadHouses">>

\* The tasks Start gives a goroutine of their own, in the order of the go
\* statements.
FreeTasks ==
  <<"createCache", "loadWidgetList", "appTemplates", "widgetTemplates">>

StartupTasks ==
  {ChainTasks[i] : i \in 1..Len(ChainTasks)}
    \cup {FreeTasks[i] : i \in 1..Len(FreeTasks)}

\* wait.Add(10)
WaitAdd == 10

\* The position of t in the sequence tasks (0: not in it).
IndexOf(tasks, t) ==
  IF \E i \in 1..Len(tasks) : tasks[i] = t
  THEN CHOOSE i \in 1..Len(tasks) : tasks[i] = t
  ELSE 0

\* The go statements of Start, in order: the chain, then the free tasks.
GoStatements == <<"chain">> \o FreeTasks

\* Start has not been called. pc: the position of Start ("add", the number of
\* go statements executed so far, "wait", "returned", or "exited" once the
\* process has ended in Logger.Fatalf or a panic); wait: the counter of the
\* wait group; at: the position of each task; history: signals, the number of
\* wg.Done calls per task; order, the tasks of the chain whose body has
\* finished, in that order; first and last, the task whose body finished
\* first and the one whose body finished last so far.
NotStarted ==
  [pc |-> "add", gone |-> 0, wait |-> 0,
   at |-> [t \in StartupTasks |-> "idle"],
   signals |-> [t \in StartupTasks |-> 0],
   order |-> <<>>, first |-> "none", last |-> "none"]

\* wait := &sync.WaitGroup{}; wait.Add(10)
StartAdd ==
  /\ start.pc = "add"
  /\ start' = [start EXCEPT !.pc = "go", !.wait = @ + WaitAdd]
  /\ UNCHANGED <<scriptVars, players, storage, handle, ret, seen>>

\* The next go statement of Start: the goroutine begins with its first task.
StartGo ==
  /\ start.pc = "go"
  /\ LET g == GoStatements[start.gone + 1]
         first == IF g = "chain" THEN ChainTasks[1] ELSE g
     IN start' = [start EXCEPT
                    !.gone = @ + 1,
                    !.pc = IF start.gone + 1 = Len(GoStatements)
                           THEN "wait" ELSE "go",
                    !.at[first] = "body"]
  /\ UNCHANGED <<scriptVars, players, storage, handle, ret, seen>>

\* The body of task t up to its last statement: it succeeds, or it ends the
\* process in util.Logger.Fatalf.
TaskBody(t, ok) ==
  /\ start.pc # "exited"
  /\ start.at[t] = "body"
  /\ start' = IF ok
              THEN [start EXCEPT
                      !.at[t] = "signal",
                      !.order = IF IndexOf(ChainTasks, t) # 0
                                THEN Append(@, t) ELSE @,
                      !.first = IF @ = "none" THEN t ELSE @,
                      !.last = t]
              ELSE [start EXCEPT !.pc = "exited"]
  /\ UNCHANGED <<scriptVars, players, storage, handle, ret, seen>>

\* Mutant of Done: the task returns without telling the wait group.
DoneMissing(counter) == counter

\* wg.Done(): the counter of the wait group goes down by one.
Done(counter) == counter - 1

\* The last statement of task t, wg.Done(), and its return: a counter below
\* zero is a panic; the goroutine of the chain goes on with its next task.
TaskDone(t) ==
  /\ start.pc # "exited"
  /\ start.at[t] = "signal"
  /\ LET i == IndexOf(ChainTasks, t)
         returned == [start EXCEPT !.wait = Done(start.wait),
                                   !.signals[t] = @ + 1,
                                   !.at[t] = "returned"]
     IN start' = IF Done(start.wait) < 0
                 THEN [start EXCEPT !.pc = "exited"]
                 ELSE IF i # 0 /\ i < Len(ChainTasks)
                 THEN [returned EXCEPT !.at[ChainTasks[i + 1]] = "body"]
                 ELSE returned
  /\ UNCHANGED <<scriptVars, players, storage, handle, ret, seen>>

\* wait.Wait() returns when the counter is zero, and Start returns.
StartWait ==
  /\ start.pc = "wait"
  /\ start.wait = 0
  /\ start' = [start EXCEPT !.pc = "returned"]
  /\ UNCHANGED <<scriptVars, players, storage, handle, ret, seen>>

NextStart ==
  \/ StartAdd
  \/ StartGo
  \/ \E t \in StartupTasks, ok \in BOOLEAN : TaskBody(t, ok)
  \/ \E t \in StartupTasks : TaskDone(t)
  \/ StartWait

(***************************************************************************)
(* The pool under concurrent requests.                                     *)
(***************************************************************************)
\* Widget scripts of the primary tree.
wUpperA == Join(sWidgets, Lua(<<"A">>))
wLowerA == Join(sWidgets, Lua(<<"a">>))
wLowerB == Join(sWidgets, Lua(<<"b">>))
wTemplate == Join(sWidgets, <<"a", ".", "h", "t", "m", "l">>)

\* The paths requests ask for.
PoolPaths == {wUpperA, wLowerA, wLowerB}

\* The file systems the pool is run against. In the first every widget script
\* loads, two scripts differ in case only and widgets/b.lua does not exist; in
\* the second widgets/b.lua exists and fails to load.
PoolFileSystems ==
  { [files |-> (wUpperA :> "ok") @@ (wLowerA :> "ok") @@ (wTemplate :> "ok"),
     dirs |-> {sWidgets}],
    [files |-> (wLowerA :> "ok") @@ (wLowerB :> "bad") @@ (wTemplate :> "ok"),
     dirs |-> {sWidgets}] }

\* No resolution call has returned since the last one began. query, scan: the
\* error returned is that of the query, of rows.Scan.
NoResult == [op |-> "none", err |-> FALSE, query |-> FALSE, scan |-> FALSE]

\* No rebuild of the registry is in progress.
NoRebuild == [pc |-> "idle"]

\* util.Widgets.List after startup: the widgets of the primary tree and of the
\* extension trees on disk.
InstalledWidgets ==
  {WidgetName(f) : f \in {g \in DOMAIN fsFiles :
                            /\ HasSuffix(g, DotLua)
                            /\ \E d \in fsDirs :
                                 /\ HasSuffix(d, sWidgets)
                                 /\ HasPrefix(g, d \o <<"/">>)}}

\* The pool and the request goroutines after construction.
InitPool ==
  /\ widgetList = EmptyMap
  /\ inst = <<>>
  /\ rw = 0
  /\ pc = [c \in Callers |-> "idle"]
  /\ arg = [c \in Callers |-> <<>>]
  /\ path = [c \in Callers |-> <<>>]
  /\ x = [c \in Callers |-> 0]
  /\ err = [c \in Callers |-> FALSE]
  /\ held = [c \in Callers |-> 0]
  /\ added = <<>>
  /\ was = [c \in Callers |-> "none"]
  /\ activeWidgets = InstalledWidgets
  /\ rb = NoRebuild
  /\ gen = 0
  /\ start = NotStarted
  /\ InitBridge

NoLookup == [op |-> "none", path |-> <<>>, found |-> FALSE, proto |-> <<>>]

\* The registry after construction: make(map[string]*glua.FunctionProto)
InitRegistry ==
  /\ pageList = EmptyMap
  /\ got = NoLookup
  /\ lastWrite = EmptyMap
  /\ loads = 0

Init ==
  /\ \E fs \in PoolFileSystems : fsFiles = fs.files /\ fsDirs = fs.dirs
  /\ InitPool
  /\ InitRegistry
  /\ extPages = {}
  /\ extWidgets = {}
  /\ result = NoResult

\* Startup: the pool is loaded before any request is served.
Booting == result = NoResult /\ inst = <<>> /\ \A c \in Callers : pc[c] = "idle"

\* Requests are served unless loading the pool failed (startup is aborted).
Serving == ~result.err

Next ==
  \/ Booting /\ Load(sWidgets)
  \/ \E c \in Callers, p \in PoolPaths : Serving /\ CallGet(c, p)
  \/ \E c \in Callers : GetLock(c)
  \/ \E c \in Callers : GetColdStart(c)
  \/ \E c \in Callers : GetColdStartFail(c)
  \/ \E c \in Callers : GetLast(c)
  \/ \E c \in Callers : GetSlice(c)
  \/ \E c \in Callers : GetUnlock(c)
  \/ \E c \in Callers, t \in BOOLEAN : Run(c, t)
  \/ \E c \in Callers : PutLock(c)
  \/ \E c \in Callers : PutBody(c)
  \/ \E c \in Callers : PutUnlock(c)

Spec == Init /\ [][Next]_vars

(***************************************************************************)
(* Extension resolution.                                                   *)
(***************************************************************************)
\* Permutations of a finite set: the orders in which a query without ORDER BY
\* may return its rows.
RECURSIVE Perms(_)
Perms(S) ==
  IF S = {} THEN {<<>>}
  ELSE UNION {{<<e>> \o q : q \in Perms(S \ {e})} : e \in S}

\* dir := filepath.Join("extensions", extensionID, extType)
ExtDir(extensionID, extType) == Join(Join(sExtensions, extensionID), extType)

\* strings.ToLower(strings.Replace(path, dir, extType, -1))
VirtualPath(file, dir, extType) == ToLower(Replace(file, dir, extType))

\* CompileLua(file) returns a proto: the source compiles.
CompileLuaOk(file) == fsFiles[file] = "ok"

\* The proto CompileLua(file) returns.
Proto(file) == [src |-> file]

\* m[key] = value on a Go map.
MapSet(m, key, value) ==
  [k \in DOMAIN m \cup {key} |-> IF k = key THEN value ELSE m[k]]

\* util.Widgets.UnloadExtensionWidget(name): the widget is removed from the
\* active widget list.
UnloadExtensionWidget(active, name) == active \ {name}

\* The error values of a resolution call: the extension id the code attached
\* to the error (<<>>: none) and the file or directory whose error it is.
NoError == [ext |-> <<>>, cause |-> <<>>]

\* The error CompileLua, DoFile, filepath.Walk or util.GetLuaFiles returned,
\* passed on as it is.
RawError(cause) == [ext |-> <<>>, cause |-> cause]

\* fmt.Errorf("extension: %v %v", extensionID, err.Error())
ExtensionError(extensionID, cause) == [ext |-> extensionID, cause |-> cause]

\* The error rows.Scan(&extensionID) returned, passed on as it is.
ScanError == [ext |-> <<>>, cause |-> <<"S", "c", "a", "n">>]

\* Mutant of LoadExtensionLoop: a script that fails to load ends the call with
\* an error whatever the type of the list.
RECURSIVE LoadExtensionLoopFatal(_, _, _, _, _, _)
LoadExtensionLoopFatal(files, i, extensionID, dir, extType, st) ==
  IF i > Len(files)
  THEN [st |-> st, err |-> FALSE, error |-> NoError]
  ELSE IF ~DoFileOk(files[i])
  THEN [st |-> st, err |-> TRUE,
        error |-> ExtensionError(extensionID, files[i])]
  ELSE LET key == VirtualPath(files[i], dir, extType)
           id == Len(st.inst) + 1
       IN LoadExtensionLoopFatal(files, i + 1, extensionID, dir, extType,
            [st EXCEPT !.list = Save(st.list, key, id),
                       !.inst = Append(st.inst, NewState(files[i])),
                       !.added = Append(st.added, <<key, id>>)])

\* The loop of LoadExtensions over the scripts of one extension, from index i.
\* st: the pool, the states created, the history of additions and the active
\* widget list so far.
RECURSIVE LoadExtensionLoop(_, _, _, _, _, _)
LoadExtensionLoop(files, i, extensionID, dir, extType, st) ==
  IF i > Len(files)
  THEN [st |-> st, err |-> FALSE, error |-> NoError]
  ELSE IF ~DoFileOk(files[i])
  THEN IF extType = sWidgets
       THEN LoadExtensionLoop(files, i + 1, extensionID, dir, extType,
              [st EXCEPT !.active =
                 UnloadExtensionWidget(st.active, WidgetName(files[i]))])
       ELSE [st |-> st, err |-> TRUE,
             error |-> ExtensionError(extensionID, files[i])]
  ELSE LET key == VirtualPath(files[i], dir, extType)
           id == Len(st.inst) + 1
       IN LoadExtensionLoop(files, i + 1, extensionID, dir, extType,
            [st EXCEPT !.list = Save(st.list, key, id),
                       !.inst = Append(st.inst, NewState(files[i])),
                       !.added = Append(st.added, <<key, id>>)])

\* The loop of LoadExtensions over the rows of the query, from row j.
\* scanAt: the row at which rows.Scan returns an error (0: none).
RECURSIVE LoadExtensionRows(_, _, _, _, _)
LoadExtensionRows(rows, j, extType, st, scanAt) ==
  IF j > Len(rows)
  THEN [st |-> st, err |-> FALSE, error |-> NoError]
  ELSE IF j = scanAt
  THEN [st |-> st, err |-> TRUE, error |-> ScanError]
  ELSE LET dir == ExtDir(rows[j], extType)
       IN IF ~DirExists(dir)
          THEN LoadExtensionRows(rows, j + 1, extType, st, scanAt)
          ELSE IF GetLuaFilesErr(dir)
          THEN [st |-> st, err |-> TRUE, error |-> RawError(dir)]
          ELSE LET r == LoadExtensionLoop(GetLuaFiles(dir), 1, rows[j], dir,
                                          extType, st)
               IN IF r.err THEN r
                  ELSE LoadExtensionRows(rows, j + 1, extType, r.st, scanAt)

\* What LoadExtensions computes on a list of type listType, the query
\* returning rows: s.List is a new map, then the rows are loaded into it.
LoadExtensionsResult(listType, rows, scanAt) ==
  LoadExtensionRows(rows, 1, listType \o sS,
                    [list |-> EmptyMap, inst |-> inst, added |-> <<>>,
                     active |-> activeWidgets], scanAt)

\* func (s *stateList) LoadExtensions() error on WidgetList, the query
\* returning rows.
LoadExtensions(rows, scanAt) ==
  /\ rw = 0
  /\ LET r == LoadExtensionsResult(sWidget, rows, scanAt)
     IN /\ widgetList' = r.st.list
        /\ inst' = r.st.inst
        /\ added' = r.st.added
        /\ activeWidgets' = r.st.active
        /\ result' = [op |-> "LoadExtensions", err |-> r.err, query |-> FALSE,
                      scan |-> r.error = ScanError, error |-> r.error]
  /\ loads' = loads + 1
  /\ gen' = Len(inst)
  /\ UNCHANGED <<rb, players, storage, handle, ret, seen, start,
                 fsFiles, fsDirs, rw, pc, arg, path, x, err, held,
                 was, pageList, extPages, extWidgets, got, lastWrite>>

\* LoadExtensions, the query returning an error: the pool has been reset.
LoadExtensionsQueryError ==
  /\ rw = 0
  /\ widgetList' = EmptyMap
  /\ added' = <<>>
  /\ result' = [op |-> "LoadExtensions", err |-> TRUE, query |-> TRUE,
               scan |-> FALSE, error |-> RawError(<<>>)]
  /\ loads' = loads + 1
  /\ gen' = Len(inst)
  /\ UNCHANGED <<rb, players, storage, handle, ret, seen, start, activeWidgets,
                 fsFiles, fsDirs, inst, rw, pc, arg, path, x, err, held, was,
                 pageList, extPages, extWidgets, got, lastWrite>>

(***************************************************************************)
(* compiledStateList                                                       *)
(***************************************************************************)
\* The walk of CompileFiles over the files from index i: the map built (with
\* the history of its writes), and whether the walk ended with an error.
RECURSIVE CompileFilesWalk(_, _, _, _)
CompileFilesWalk(walk, i, files, writes) ==
  IF i > Len(walk) THEN [files |-> files, writes |-> writes, err |-> FALSE]
  ELSE IF ~HasSuffix(BaseName(walk[i]), DotLua)
  THEN CompileFilesWalk(walk, i + 1, files, writes)
  ELSE IF ~CompileLuaOk(walk[i])
  THEN [files |-> files, writes |-> writes, err |-> TRUE]
  ELSE CompileFilesWalk(walk, i + 1,
                        MapSet(files, walk[i], Proto(walk[i])),
                        MapSet(writes, ToLower(walk[i]), Proto(walk[i])))

\* What CompileFiles(dir) computes: an error, or the map that replaces s.List.
CompileFilesResult(dir) ==
  IF ~DirExists(dir)
  THEN [files |-> EmptyMap, writes |-> EmptyMap, err |-> TRUE]
  ELSE CompileFilesWalk(WalkFiles(dir), 1, EmptyMap, EmptyMap)

\* Mutant of CompileFiles: the walk writes into s.List itself instead of a
\* map of its own.
CompileFilesInPlace(dir) ==
  /\ LET r == IF ~DirExists(dir)
              THEN [files |-> pageList, writes |-> lastWrite, err |-> TRUE]
              ELSE CompileFilesWalk(WalkFiles(dir), 1, pageList, lastWrite)
     IN /\ pageList' = r.files
        /\ lastWrite' = r.writes
        /\ result' = [op |-> "CompileFiles", err |-> r.err, query |-> FALSE,
                      scan |-> FALSE]
  /\ got' = NoLookup
  /\ UNCHANGED <<laterVars, activeWidgets,
                 fsFiles, fsDirs, widgetList, inst, rw, pc, arg, path, x, err,
                 held, added, was, extPages, extWidgets, loads>>

\* func (s *compiledStateList) CompileFiles(dir string) error
CompileFiles(dir) ==
  /\ LET r == CompileFilesResult(dir)
     IN /\ pageList' = IF r.err THEN pageList ELSE r.files
        /\ lastWrite' = IF r.err THEN lastWrite ELSE r.writes
        /\ result' = [op |-> "CompileFiles", err |-> r.err, query |-> FALSE,
                      scan |-> FALSE]
  /\ got' = NoLookup
  /\ UNCHANGED <<laterVars, activeWidgets,
                 fsFiles, fsDirs, widgetList, inst, rw, pc, arg, path, x, err,
                 held, added, was, extPages, extWidgets, loads>>

\* The walk of CompileExtensions over the files of one extension, from index i.
RECURSIVE CompileExtensionWalk(_, _, _, _, _, _)
CompileExtensionWalk(walk, i, dir, extType, list, writes) ==
  IF i > Len(walk)
  THEN [list |-> list, writes |-> writes, err |-> FALSE, error |-> NoError]
  ELSE IF ~HasSuffix(BaseName(walk[i]), DotLua)
  THEN CompileExtensionWalk(walk, i + 1, dir, extType, list, writes)
  ELSE IF ~CompileLuaOk(walk[i])
  THEN [list |-> list, writes |-> writes, err |-> TRUE,
        error |-> RawError(walk[i])]
  ELSE LET key == VirtualPath(walk[i], dir, extType)
       IN CompileExtensionWalk(walk, i + 1, dir, extType,
                               MapSet(list, key, Proto(walk[i])),
                               MapSet(writes, ToLower(key), Proto(walk[i])))

\* The loop of CompileExtensions over the rows of the query, from row j: what
\* the call as a whole leaves in s.List and returns. The walk of a directory
\* that does not exist calls the walk function with the error of os.Lstat,
\* which the function returns. scanAt: the row at which rows.Scan returns an
\* error (0: none).
RECURSIVE CompileExtensionRows(_, _, _, _, _, _)
CompileExtensionRows(rows, j, extType, list, writes, scanAt) ==
  IF j > Len(rows)
  THEN [list |-> list, writes |-> writes, err |-> FALSE, error |-> NoError]
  ELSE IF j = scanAt
  THEN [list |-> list, writes |-> writes, err |-> TRUE, error |-> ScanError]
  ELSE LET dir == ExtDir(rows[j], extType)
       IN IF ~DirExists(dir)
          THEN [list |-> list, writes |-> writes, err |-> TRUE,
                error |-> RawError(dir)]
          ELSE LET r == CompileExtensionWalk(WalkFiles(dir), 1, dir, extType,
                                             list, writes)
               IN IF r.err THEN r
                  ELSE CompileExtensionRows(rows, j + 1, extType, r.list,
                                            r.writes, scanAt)

\* func (s *compiledStateList) CompileExtensions(extType string) error, step
\* by step: the call holds s.rw from its first statement to its return and
\* writes s.List one entry at a time, while Get and Exists take no lock.
\* The keys the loop of Get and Exists matches: strings.ToLower(p) == path
Matches(list, p) == {k \in DOMAIN list : ToLower(k) = ToLower(p)}

\* func (s *compiledStateList) Get(path string): the loop ranges over the map
\* in an order the runtime chooses, and returns at the first key that matches.
Get(p) ==
  /\ \/ \E k \in Matches(pageList, p) :
          got' = [op |-> "Get", path |-> p, found |-> TRUE, proto |-> pageList[k]]
     \/ /\ Matches(pageList, p) = {}
        /\ got' = [op |-> "Get", path |-> p, found |-> FALSE, proto |-> <<>>]
  /\ UNCHANGED <<laterVars, activeWidgets,
                 fsFiles, fsDirs, widgetList, inst, rw, pc, arg, path, x, err,
                 held, result, added, was, pageList, extPages, extWidgets,
                 lastWrite, loads>>

\* func (s *compiledStateList) Exists(path string) bool
Exists(p) ==
  /\ got' = [op |-> "Exists", path |-> p, found |-> Matches(pageList, p) # {},
             proto |-> <<>>]
  /\ UNCHANGED <<laterVars, activeWidgets,
                 fsFiles, fsDirs, widgetList, inst, rw, pc, arg, path, x, err,
                 held, result, added, was, pageList, extPages, extWidgets,
                 lastWrite, loads>>

\* The walk of CompileExtensions over the files of one extension, from index
\* i, as the steps it takes: a write of s.List for each script that compiles,
\* and the return of the error of one that does not.
RECURSIVE WalkSteps(_, _, _, _)
WalkSteps(walk, i, dir, extType) ==
  IF i > Len(walk) THEN <<>>
  ELSE IF ~HasSuffix(BaseName(walk[i]), DotLua)
  THEN WalkSteps(walk, i + 1, dir, extType)
  ELSE IF ~CompileLuaOk(walk[i])
  THEN <<[step |-> "return", error |-> RawError(walk[i])]>>
  ELSE <<[step |-> "write", key |-> VirtualPath(walk[i], dir, extType),
          proto |-> Proto(walk[i])]>>
       \o WalkSteps(walk, i + 1, dir, extType)

\* The steps of CompileExtensions over the rows of its query, from row j: the
\* loop ends at the row rows.Scan fails on (scanAt, 0: none) and at the first
\* walk that returns an error.
RECURSIVE RowSteps(_, _, _, _)
RowSteps(rows, j, extType, scanAt) ==
  IF j > Len(rows) THEN <<>>
  ELSE IF j = scanAt THEN <<[step |-> "return", error |-> ScanError]>>
  ELSE LET dir == ExtDir(rows[j], extType)
           w == IF ~DirExists(dir)
                THEN <<[step |-> "return", error |-> RawError(dir)]>>
                ELSE WalkSteps(WalkFiles(dir), 1, dir, extType)
       IN IF w # <<>> /\ w[Len(w)].step = "return" THEN w
          ELSE w \o RowSteps(rows, j + 1, extType, scanAt)

\* CompileExtensions locks s.rw and its query returns rows. pre: the map
\* when the call began.
RebuildLock(extType, rows, scanAt) ==
  /\ rb.pc = "idle"
  /\ rb' = [pc |-> "walk", rows |-> rows, scanAt |-> scanAt,
            steps |-> RowSteps(rows, 1, extType, scanAt), n |-> 1,
            pre |-> pageList]
  /\ result' = NoResult
  /\ got' = NoLookup
  /\ UNCHANGED <<players, storage, handle, ret, seen, gen, start,
                 activeWidgets, fsFiles, fsDirs, widgetList, inst, rw, pc, arg,
                 path, x, err, held, added, was, pageList, extPages,
                 extWidgets, lastWrite, loads>>

\* CompileExtensions reaches s.List[path] = proto: the write of the map begins.
RebuildWriteBegin ==
  /\ rb.pc = "walk"
  /\ rb.n <= Len(rb.steps)
  /\ rb.steps[rb.n].step = "write"
  /\ rb' = [rb EXCEPT !.pc = "write"]
  /\ got' = NoLookup
  /\ UNCHANGED <<players, storage, handle, ret, seen, gen, start,
                 activeWidgets, fsFiles, fsDirs, widgetList, inst, rw, pc, arg,
                 path, x, err, held, result, added, was, pageList, extPages,
                 extWidgets, lastWrite, loads>>

\* s.List[path] = proto: the write of the map ends.
RebuildWriteEnd ==
  /\ rb.pc = "write"
  /\ pageList' = MapSet(pageList, rb.steps[rb.n].key, rb.steps[rb.n].proto)
  /\ lastWrite' = MapSet(lastWrite, ToLower(rb.steps[rb.n].key),
                         rb.steps[rb.n].proto)
  /\ rb' = [rb EXCEPT !.pc = "walk", !.n = rb.n + 1]
  /\ got' = NoLookup
  /\ UNCHANGED <<players, storage, handle, ret, seen, gen, start,
                 activeWidgets, fsFiles, fsDirs, widgetList, inst, rw, pc, arg,
                 path, x, err, held, result, added, was, extPages, extWidgets,
                 loads>>

\* CompileExtensions returns: the error of a walk, or nil after the last row.
\* The deferred Unlock releases s.rw.
RebuildReturn ==
  /\ rb.pc = "walk"
  /\ \/ /\ rb.n > Len(rb.steps)
        /\ result' = [op |-> "CompileExtensions", err |-> FALSE,
                      query |-> FALSE, scan |-> FALSE, error |-> NoError]
     \/ /\ rb.n <= Len(rb.steps)
        /\ rb.steps[rb.n].step = "return"
        /\ result' = [op |-> "CompileExtensions", err |-> TRUE,
                      query |-> FALSE,
                      scan |-> rb.steps[rb.n].error = ScanError,
                      error |-> rb.steps[rb.n].error]
  /\ rb' = NoRebuild
  /\ got' = NoLookup
  /\ UNCHANGED <<players, storage, handle, ret, seen, gen, start,
                 activeWidgets, fsFiles, fsDirs, widgetList, inst, rw, pc, arg,
                 path, x, err, held, added, was, pageList, extPages,
                 extWidgets, lastWrite, loads>>

\* CompileExtensions locks s.rw, its query returns an error and the call
\* returns it: s.List is not written.
CompileExtensionsQueryError ==
  /\ rb.pc = "idle"
  /\ result' = [op |-> "CompileExtensions", err |-> TRUE, query |-> TRUE,
               scan |-> FALSE, error |-> RawError(<<>>)]
  /\ got' = NoLookup
  /\ UNCHANGED <<laterVars, activeWidgets,
                 fsFiles, fsDirs, widgetList, inst, rw, pc, arg, path, x, err,
                 held, added, was, pageList, extPages, extWidgets, lastWrite,
                 loads>>

\* CompileFiles waits for s.rw, which a rebuild in progress holds.
RebuildFiles(dir) == rb.pc = "idle" /\ CompileFiles(dir)

\* A Get or Exists that reads the map while CompileExtensions writes it. The
\* read and the write are not synchronised: the lookup sees the map with the
\* entry written, or the runtime detects the concurrent map write and ends
\* the process with a fatal error. (The lookup that sees the map without the
\* entry is Get or Exists itself.)
LookupDuringWrite(op, p) ==
  /\ rb.pc = "write"
  /\ LET after == MapSet(pageList, rb.steps[rb.n].key, rb.steps[rb.n].proto)
     IN \/ \E k \in Matches(after, p) :
             got' = [op |-> op, path |-> p, found |-> TRUE,
                     proto |-> IF op = "Get" THEN after[k] ELSE <<>>]
        \/ /\ Matches(after, p) = {}
           /\ got' = [op |-> op, path |-> p, found |-> FALSE, proto |-> <<>>]
        \/ got' = [op |-> "fatal", path |-> p, found |-> FALSE, proto |-> <<>>]
  /\ UNCHANGED <<laterVars, activeWidgets, fsFiles, fsDirs, widgetList, inst,
                 rw, pc, arg, path, x, err, held, result, added, was, pageList,
                 extPages, extWidgets, lastWrite, loads>>

(***************************************************************************)
(* The registry and the pool under resolution calls.                       *)
(***************************************************************************)
\* Page scripts of the primary tree and a file that is no script.
pUpperIndex == Join(sPages, Lua(<<"I", "n", "d", "e", "x">>))
pLowerIndex == Join(sPages, Lua(<<"i", "n", "d", "e", "x">>))
pAbout == Join(sPages, Lua(<<"a", "b", "o", "u", "t">>))
pStyle == Join(sPages, <<"s", ".", "c", "s", "s">>)

\* Extension ids, and the scripts the extensions contribute.
ext42 == <<"4", "2">>
ext7 == <<"7">>
ExtPage(id) == Join(ExtDir(id, sPages), Lua(<<"i", "n", "d", "e", "x">>))
ExtWidget(id) == Join(ExtDir(id, sWidgets), Lua(<<"w">>))
ExtWidgetV(id) == Join(ExtDir(id, sWidgets), Lua(<<"v">>))

\* The paths looked up in the registry.
PagePaths == {pUpperIndex, pLowerIndex, pAbout}

\* The installations the resolution is run against: the files, the directories
\* and the enabled extension rows of each kind.
\* 1: the primary index page has an upper-case letter in its name and the
\*    enabled extension 42 contributes the same page; 7 is installed and disabled.
\* 2: two enabled extensions contribute the page the primary tree has; a
\*    widget of extension 7 fails to load.
\* 3: a page and a widget of the primary tree fail to compile and to load.
\* 4: a page of the enabled extension 42 fails to compile.
\* 5: the enabled extension 7 has neither a pages nor a widgets directory.
Installations ==
  { [files |-> (pUpperIndex :> "ok") @@ (pAbout :> "ok") @@ (pStyle :> "ok")
               @@ (ExtPage(ext42) :> "ok") @@ (ExtPage(ext7) :> "ok")
               @@ (wLowerA :> "ok") @@ (ExtWidget(ext42) :> "ok"),
     dirs |-> {sPages, sWidgets, ExtDir(ext42, sPages), ExtDir(ext7, sPages),
               ExtDir(ext42, sWidgets)},
     pages |-> {ext42}, widgets |-> {ext42}],
    [files |-> (pLowerIndex :> "ok") @@ (pAbout :> "ok")
               @@ (ExtPage(ext42) :> "ok") @@ (ExtPage(ext7) :> "ok")
               @@ (wLowerA :> "ok") @@ (ExtWidget(ext42) :> "ok")
               @@ (ExtWidgetV(ext7) :> "bad") @@ (ExtWidget(ext7) :> "ok"),
     dirs |-> {sPages, sWidgets, ExtDir(ext42, sPages), ExtDir(ext7, sPages),
               ExtDir(ext42, sWidgets), ExtDir(ext7, sWidgets)},
     pages |-> {ext42, ext7}, widgets |-> {ext42, ext7}],
    [files |-> (pAbout :> "ok") @@ (pLowerIndex :> "bad")
               @@ (ExtPage(ext42) :> "ok")
               @@ (wLowerA :> "ok") @@ (wLowerB :> "bad"),
     dirs |-> {sPages, sWidgets, ExtDir(ext42, sPages)},
     pages |-> {ext42}, widgets |-> {}],
    [files |-> (pLowerIndex :> "ok") @@ (ExtPage(ext42) :> "bad")
               @@ (ExtPage(ext7) :> "ok") @@ (wLowerA :> "ok"),
     dirs |-> {sPages, sWidgets, ExtDir(ext42, sPages), ExtDir(ext7, sPages)},
     pages |-> {ext42, ext7}, widgets |-> {}],
    [files |-> (pLowerIndex :> "ok") @@ (pAbout :> "ok")
               @@ (ExtPage(ext42) :> "ok")
               @@ (wLowerA :> "ok") @@ (ExtWidget(ext42) :> "ok"),
     dirs |-> {sPages, sWidgets, ExtDir(ext42, sPages), ExtDir(ext42, sWidgets)},
     pages |-> {ext42, ext7}, widgets |-> {ext42, ext7}] }

InitReg ==
  /\ \E i \in Installations :
       /\ fsFiles = i.files
       /\ fsDirs = i.dirs
       /\ extPages = i.pages
       /\ extWidgets = i.widgets
  /\ InitPool
  /\ InitRegistry
  /\ result = NoResult

\* The process runs: the runtime has not ended it with a fatal error.
Running == got.op # "fatal"

NextReg ==
  \/ Running /\ RebuildFiles(sPages)
  \/ \E rows \in Perms(extPages), scanAt \in 0..Cardinality(extPages) :
       Running /\ RebuildLock(sPages, rows, scanAt)
  \/ Running /\ RebuildWriteBegin
  \/ Running /\ RebuildWriteEnd
  \/ Running /\ RebuildReturn
  \/ Running /\ CompileExtensionsQueryError
  \/ \E p \in PagePaths : Running /\ Get(p)
  \/ \E p \in PagePaths : Running /\ Exists(p)
  \/ \E p \in PagePaths, op \in {"Get", "Exists"} :
       Running /\ LookupDuringWrite(op, p)

SpecReg == InitReg /\ [][NextReg]_vars

\* The resolution calls of the pool (WidgetList), made one after the other.
NextExt ==
  \/ loads < MaxLoads /\ Load(sWidgets)
  \/ \E rows \in Perms(extWidgets), scanAt \in 0..Cardinality(extWidgets) :
       loads < MaxLoads /\ LoadExtensions(rows, scanAt)
  \/ loads < MaxLoads /\ LoadExtensionsQueryError

SpecExt == InitReg /\ [][NextExt]_vars

(***************************************************************************)
(* Properties of the pool.                                                 *)
(***************************************************************************)
\* The state a request holds: from the return of its Get to the moment its
\* Put has saved the state (0: none).
Holds(c) == IF pc[c] \in {"run", "put_lock", "put_body"} THEN held[c] ELSE 0

\* The state a goroutine has taken out of the pool or built: the one its Get
\* is returning, or the one it holds (0: none).
Out(c) == IF pc[c] \in {"get_ret_new", "get_ret_x"} THEN x[c] ELSE Holds(c)

\* The slots of the pool that state i occupies.
Slots(i) ==
  {sl \in UNION {{<<k, n>> : n \in 1..Len(widgetList[k])} : k \in DOMAIN widgetList} :
     widgetList[sl[1]][sl[2]] = i}

\* The states of the history that were put into bucket key, oldest first.
RECURSIVE AddedTo(_, _)
AddedTo(adds, key) ==
  IF adds = <<>> THEN <<>>
  ELSE IF adds[1][1] = key THEN <<adds[1][2]>> \o AddedTo(Tail(adds), key)
  ELSE AddedTo(Tail(adds), key)

\* C1: under any interleaving of Get and Put calls of requests that check in
\* the state they hold, once per checkout, no state is held by two requests at
\* the same time, no state occupies more than one slot of the pool, and no
\* state is both idle in the pool and held by a request.
C1_ExclusiveCheckout ==
  /\ \A c1, c2 \in Callers :
       (c1 # c2 /\ Holds(c1) # 0) => Holds(c1) # Holds(c2)
  /\ \A i \in 1..Len(inst) : Cardinality(Slots(i)) <= 1
  /\ \A c \in Callers : Holds(c) # 0 => Slots(Holds(c)) = {}

\* C1 witness: one request holds a state while another has just checked its
\* own state in, which is now idle in the pool.
C1_Witness ==
  \E c1, c2 \in Callers :
    /\ c1 # c2
    /\ Holds(c1) # 0
    /\ pc[c2] = "put_unlock"
    /\ Slots(held[c2]) # {}
    /\ held[c2] # Holds(c1)

\* C2: a Get that finds the bucket of its path empty builds a state of its own:
\* the state it returns is new (one more state exists than before the cold
\* start, and it is that one), no other goroutine holds or is being given it,
\* it is in no slot of the pool, and the bucket is still empty when the call
\* returns; so two concurrent Get(P) on an empty bucket create two states.
C2_ColdStartState ==
  \A c \in Callers :
    pc[c] = "get_ret_new" =>
      /\ x[c] = Len(inst)
      /\ \A d \in Callers \ {c} : Out(d) # x[c] /\ x[d] # x[c]
      /\ Slots(x[c]) = {}
      /\ Bucket(widgetList, path[c]) = <<>>

C2_ColdStartStep ==
  \A c \in Callers :
    (pc[c] = "get_body" /\ pc'[c] = "get_ret_new") => Len(inst') = Len(inst) + 1

C2_IndependentColdStarts == [](C2_ColdStartState) /\ [][C2_ColdStartStep]_vars

\* C2 witness: nothing was preloaded, one request holds the first state ever
\* built and has not run yet, and a second Get for the same path is returning
\* the second state, built by its own cold start.
C2_Witness ==
  \E c1, c2 \in Callers :
    /\ c1 # c2
    /\ result = NoResult
    /\ pc[c1] = "run" /\ held[c1] = 1
    /\ pc[c2] = "get_ret_new" /\ x[c2] = 2
    /\ ToLower(arg[c1]) = path[c2]
    /\ Len(inst) = 2

\* C3: no state is lost: every state ever created is either idle in exactly
\* one slot of the pool or out with exactly one goroutine; a Get returns an
\* error only for a path whose script does not load; and when a Put is about
\* to return, the state is the top of the bucket of its path, so the next
\* Get of that path finds it.
C3_NoStateLost ==
  /\ \A i \in 1..Len(inst) :
       Cardinality(Slots(i)) + Cardinality({c \in Callers : Out(c) = i}) = 1
  /\ \A c \in Callers : pc[c] = "get_ret_err" => ~DoFileOk(path[c])
  /\ \A c \in Callers :
       pc[c] = "put_unlock" =>
         /\ Bucket(widgetList, path[c]) # <<>>
         /\ LastOf(Bucket(widgetList, path[c])) = held[c]

\* C3 witness: nothing was preloaded and the only state ever built, which a
\* cold start created and a Put checked in, is being returned by a later Get.
C3_Witness ==
  \E c \in Callers :
    /\ result = NoResult
    /\ Len(inst) = 1
    /\ pc[c] = "get_ret_x"
    /\ x[c] = 1

\* C5: when Put has saved a state its transaction status is false, whatever
\* it was before; so every idle state of the pool, and every state a pool hit
\* returns, has the status false.
C5_TransactionReset ==
  /\ \A c \in Callers : pc[c] = "put_unlock" => ~inst[held[c]].txn
  /\ \A i \in 1..Len(inst) : Slots(i) # {} => ~inst[i].txn
  /\ \A c \in Callers : pc[c] \in {"get_slice", "get_ret_x"} => ~inst[x[c]].txn

\* C5 witness: a Put is about to return that found the status set.
C5_Witness == \E c \in Callers : pc[c] = "put_unlock" /\ was[c] = "set"

\* C6: reuse is LIFO per path: each bucket holds the states put into it and
\* not yet taken out, oldest first; a Get that finds its bucket non-empty takes
\* the newest of them, and when it returns exactly that state has left the
\* bucket; the state is one that was in the pool (no cold start).
C6_LifoReuse ==
  /\ \A c \in Callers :
       pc[c] = "get_slice" =>
         /\ AddedTo(added, path[c]) # <<>>
         /\ x[c] = AddedTo(added, path[c])[Len(AddedTo(added, path[c]))]
  /\ \A c \in Callers :
       pc[c] = "get_ret_x" =>
         /\ Slots(x[c]) = {}
         /\ Bucket(widgetList, path[c]) = AddedTo(added, path[c])
  /\ \A k \in DOMAIN widgetList : widgetList[k] = AddedTo(added, k)

\* C6 witness: a Get has taken a state out of a bucket that held two or more.
C6_Witness ==
  \E c \in Callers :
    /\ pc[c] = "get_ret_x"
    /\ Bucket(widgetList, path[c]) # <<>>

\* C7: a failed cold start returns the error and no state, and neither the
\* failing step nor the return changes the pool or the states: every bucket is
\* as it was, the mutex is released, the request holds nothing.
C7_FailedReturn ==
  \A c \in Callers : pc[c] = "get_ret_err" => (x[c] = 0 /\ err[c])

C7_FailedStep ==
  \A c \in Callers :
    \/ ~((pc[c] = "get_body" /\ pc'[c] = "get_ret_err")
          \/ (pc[c] = "get_ret_err" /\ pc'[c] = "idle"))
    \/ /\ widgetList' = widgetList
       /\ inst' = inst
       /\ held'[c] = 0
       /\ (pc'[c] = "idle" => rw' = 0)

C7_FailedColdStart == [](C7_FailedReturn) /\ [][C7_FailedStep]_vars

\* C7 witness: a Get is returning an error while the pool holds idle states.
C7_Witness ==
  \E c \in Callers :
    /\ pc[c] = "get_ret_err"
    /\ \E k \in DOMAIN widgetList : widgetList[k] # <<>>

(***************************************************************************)
(* Properties of the registry and of the resolution.                       *)
(***************************************************************************)
\* The scripts of the primary page tree.
PrimaryPages ==
  {f \in DOMAIN fsFiles : HasPrefix(f, sPages \o <<"/">>) /\ HasSuffix(f, DotLua)}

\* The scripts an extension has of a kind.
ExtensionScripts(id, kind) ==
  {f \in DOMAIN fsFiles :
     HasPrefix(f, ExtDir(id, kind) \o <<"/">>) /\ HasSuffix(f, DotLua)}

\* The enabled extensions of a kind whose directory of that kind is missing.
MissingDirectory(enabled, kind) ==
  {id \in enabled : ExtDir(id, kind) \notin fsDirs}

\* The data layer answered the last resolution call: the query returned its
\* rows and rows.Scan read each of them.
Answered == ~result.query /\ ~result.scan

\* The protos the registry holds under keys that match p.
Resolved(p) == {pageList[k] : k \in Matches(pageList, p)}

\* C4: path lookups are case-insensitive: a Get or Put of the pool addresses
\* the bucket of the lowercase form of its path, so paths that differ in case
\* only share a bucket; and the registry holds at most one entry that matches
\* a path, which Get returns and Exists reports for every case of the path.
C4_CaseInsensitiveLookup ==
  /\ \A c \in Callers : pc[c] # "idle" /\ pc[c] # "run" => path[c] = ToLower(arg[c])
  /\ \A k \in DOMAIN widgetList : k = ToLower(k)
  /\ \A p \in PagePaths : Cardinality(Matches(pageList, p)) <= 1
  /\ got.op = "Get" =>
       /\ got.found = (Matches(pageList, got.path) # {})
       /\ got.found => \A k \in Matches(pageList, got.path) : pageList[k] = got.proto
  /\ got.op = "Exists" => got.found = (Matches(pageList, got.path) # {})

\* C8: CompileFiles fails atomically: when it returns an error the registry
\* is what it was before the call; when it returns nil the registry is the
\* map of the protos of the scripts of the tree and of nothing else; and it
\* returns an error exactly when the directory is missing or a script of the
\* tree does not compile.
C8_RegistryAfterCompileFiles ==
  (result.op = "CompileFiles" /\ ~result.err) =>
    pageList = [f \in PrimaryPages |-> Proto(f)]

C8_CompileFilesStep ==
  result'.op = "CompileFiles" =>
    /\ result'.err = (sPages \notin fsDirs \/ \E f \in PrimaryPages : fsFiles[f] # "ok")
    /\ result'.err => pageList' = pageList

C8_CompileFilesAtomic ==
  [](C8_RegistryAfterCompileFiles) /\ [][C8_CompileFilesStep]_vars

\* C8 witness: CompileFiles has returned an error, after it had compiled the
\* first script of the walk, and the registry holds the entries it held before.
C8_Witness ==
  /\ result.op = "CompileFiles"
  /\ result.err
  /\ pageList # EmptyMap
  /\ \E f \in PrimaryPages : fsFiles[f] = "ok"

\* C9: an extension resolution in which an enabled extension lacks its
\* directory returns no error (unless the data layer failed), and the scripts of
\* the other enabled extensions that load are in the pool / the registry.
C9_MissingDirectorySkipped ==
  /\ (/\ result.op = "LoadExtensions" /\ Answered
      /\ MissingDirectory(extWidgets, sWidgets) # {}) =>
       /\ ~result.err
       /\ \A id \in extWidgets : \A f \in ExtensionScripts(id, sWidgets) :
            fsFiles[f] = "ok" =>
              \E n \in 1..Len(Bucket(widgetList, VirtualPath(f, ExtDir(id, sWidgets), sWidgets))) :
                inst[widgetList[VirtualPath(f, ExtDir(id, sWidgets), sWidgets)][n]].script = f
  /\ (/\ result.op = "CompileExtensions" /\ Answered
      /\ MissingDirectory(extPages, sPages) # {}
      /\ \A id \in extPages : \A f \in ExtensionScripts(id, sPages) : fsFiles[f] = "ok") =>
       /\ ~result.err
       /\ \A id \in extPages : \A f \in ExtensionScripts(id, sPages) :
            VirtualPath(f, ExtDir(id, sPages), sPages) \in DOMAIN pageList

\* The half of C9 that is about the pool.
C9_PoolHalf ==
  (/\ result.op = "LoadExtensions" /\ Answered
   /\ MissingDirectory(extWidgets, sWidgets) # {}) =>
    /\ ~result.err
    /\ \A id \in extWidgets : \A f \in ExtensionScripts(id, sWidgets) :
         fsFiles[f] = "ok" =>
           \E n \in 1..Len(Bucket(widgetList, VirtualPath(f, ExtDir(id, sWidgets), sWidgets))) :
             inst[widgetList[VirtualPath(f, ExtDir(id, sWidgets), sWidgets)][n]].script = f

\* The scripts that contribute to the virtual path of p: those of the primary
\* tree and those of the enabled page extensions.
Contributors(p) ==
  {f \in PrimaryPages : ToLower(f) = ToLower(p)}
  \cup UNION {{f \in ExtensionScripts(id, sPages) :
                 VirtualPath(f, ExtDir(id, sPages), sPages) = ToLower(p)} :
              id \in extPages}

\* Every script of the primary tree can be looked up.
PrimaryCompiled == \A f \in PrimaryPages : Matches(pageList, f) # {}

\* C10: when several scripts contribute to one virtual path, then after
\* CompileFiles and CompileExtensions every Get of that path, in any case,
\* returns one and the same proto: the one written last.
C10_LastWalkedWins ==
  (/\ result.op = "CompileExtensions" /\ ~result.err
   /\ PrimaryCompiled
   /\ got.op = "Get"
   /\ Cardinality(Contributors(got.path)) >= 2) =>
    /\ got.found
    /\ got.proto = lastWrite[ToLower(got.path)]
    /\ Cardinality(Resolved(got.path)) = 1

(***************************************************************************)
(* Properties of the extension resolution.                                 *)
(***************************************************************************)
\* The virtual path of a widget script of extension id.
WidgetPath(id, f) == VirtualPath(f, ExtDir(id, sWidgets), sWidgets)

\* The widget scripts of enabled extensions that fail to load.
FailingWidgets ==
  UNION {{f \in ExtensionScripts(id, sWidgets) : fsFiles[f] # "ok"} :
         id \in extWidgets}

\* The files the idle states of the pool were initialised from.
PooledScripts ==
  UNION {{inst[widgetList[k][n]].script : n \in 1..Len(widgetList[k])} :
         k \in DOMAIN widgetList}

\* C11: widget load failures are non-fatal. When LoadExtensions has returned
\* (the data layer having answered), it returned no error although widget scripts
\* of enabled extensions failed to load; every widget script of an enabled
\* extension that loads has an instance in the bucket of its virtual path (the
\* resolution went on after the failure); no instance of a failed script is in
\* the pool; and the identifier of a failed widget is not in the active
\* widget list.
C11_WidgetFailureNonFatal ==
  (result.op = "LoadExtensions" /\ Answered) =>
    /\ ~result.err
    /\ \A id \in extWidgets : \A f \in ExtensionScripts(id, sWidgets) :
         fsFiles[f] = "ok" =>
           \E n \in 1..Len(Bucket(widgetList, WidgetPath(id, f))) :
             inst[widgetList[WidgetPath(id, f)][n]].script = f
    /\ \A f \in FailingWidgets :
         /\ f \notin PooledScripts
         /\ WidgetName(f) \notin activeWidgets

\* LoadExtensions has returned after a widget script failed to load, with the
\* widgets that load, of the same and of another extension, in the pool.
C11_Witness ==
  /\ result.op = "LoadExtensions" /\ Answered
  /\ FailingWidgets # {}
  /\ \E id \in extWidgets, f \in FailingWidgets :
       /\ f \in ExtensionScripts(id, sWidgets)
       /\ \E g \in ExtensionScripts(id, sWidgets) : g \in PooledScripts
       /\ \E other \in extWidgets \ {id} :
            \E g \in ExtensionScripts(other, sWidgets) : g \in PooledScripts

\* The enabled extension that owns the script file f of a kind.
Owners(enabled, kind, f) ==
  {id \in enabled : f \in ExtensionScripts(id, kind)}

\* C12: a page script that fails to load is fatal to the resolution call, and
\* the error the call returns carries the id of the extension that owns the
\* failing script: when CompileExtensions or LoadExtensions has returned the
\* error of a page script, the extension id attached to the error is the id of
\* the enabled extension the script belongs to.
C12_FatalWithExtensionId ==
  /\ (result.op = "CompileExtensions" /\ Answered) =>
       /\ result.err = (\E id \in extPages : ExtDir(id, sPages) \notin fsDirs
                                             \/ \E f \in ExtensionScripts(id, sPages) : fsFiles[f] # "ok")
       /\ (result.err /\ result.error.cause \in DOMAIN fsFiles) =>
            result.error.ext \in Owners(extPages, sPages, result.error.cause)
  /\ \A rows \in Perms(extPages) :
       LET r == LoadExtensionsResult(sPage, rows, 0)
       IN /\ r.err = (\E id \in extPages : \E f \in ExtensionScripts(id, sPages) : fsFiles[f] # "ok")
          /\ r.err => r.error.ext \in Owners(extPages, sPages, r.error.cause)

\* The half of C12 about stateList.LoadExtensions on a list of type page: the
\* call fails exactly when a page script of an enabled extension fails to
\* load, and its error has the id of the owning extension attached.
C12_PoolHalf ==
  \A rows \in Perms(extPages) :
    LET r == LoadExtensionsResult(sPage, rows, 0)
    IN /\ r.err = (\E id \in extPages : \E f \in ExtensionScripts(id, sPages) : fsFiles[f] # "ok")
       /\ r.err => r.error.ext \in Owners(extPages, sPages, r.error.cause)

(***************************************************************************)
(* The rebuild of the registry with concurrent lookups.                     *)
(***************************************************************************)
\* What a lookup of path g.path in the registry reg can return.
LookupIn(reg, g) ==
  /\ g.op \in {"Get", "Exists"}
  /\ g.found = (Matches(reg, g.path) # {})
  /\ (g.op = "Get" /\ g.found) => \E k \in Matches(reg, g.path) : reg[k] = g.proto

\* The registry a rebuild in progress will leave when it returns.
PostRebuild ==
  CompileExtensionRows(rb.rows, 1, sPages, rb.pre, EmptyMap, rb.scanAt).list

\* The stepwise rebuild leaves the registry CompileExtensions computes.
RebuildAgrees ==
  (rb.pc = "walk" /\ (rb.n > Len(rb.steps) \/ rb.steps[rb.n].step = "return"))
    => pageList = PostRebuild

\* C13: a rebuild excludes readers. A Get or Exists made while a
\* CompileExtensions call is between its Lock and its return gives what a
\* lookup in the complete registry before the rebuild, or in the complete
\* registry after it, gives; it never reads the map during a write.
C13_RebuildExcludesReaders ==
  (rb.pc # "idle" /\ got.op # "none") =>
    LookupIn(rb.pre, got) \/ LookupIn(PostRebuild, got)

\* The virtual paths the enabled extensions contribute scripts of a kind to.
ContributedPaths(enabled, kind) ==
  UNION {{VirtualPath(f, ExtDir(id, kind), kind) :
            f \in ExtensionScripts(id, kind)} : id \in enabled}

\* A step keeps every entry of map m whose path no enabled extension
\* contributes: the entry is in map n, unchanged.
EntriesKept(m, n, enabled, kind) ==
  \A k \in DOMAIN m :
    ToLower(k) \notin ContributedPaths(enabled, kind) =>
      k \in DOMAIN n /\ n[k] = m[k]

\* The half of C14 about the compiled registry: when a CompileExtensions call
\* returns, every entry the registry held when the call began and that no
\* enabled extension contributes is kept.
C14_RegistryStep ==
  (rb.pc # "idle" /\ rb'.pc = "idle") =>
    EntriesKept(rb.pre, pageList', extPages, sPages)

C14_RegistryHalf == [][C14_RegistryStep]_vars

\* The half of C14 about the pool: a LoadExtensions call that returns no
\* error keeps every bucket no enabled extension contributes.
C14_PoolStep ==
  (result'.op = "LoadExtensions" /\ ~result'.err) =>
    EntriesKept(widgetList, widgetList', extWidgets, sWidgets)

\* C14: extension resolution is an incremental merge into the primary
\* registries: every entry the compiled registry or the pool held before
\* CompileExtensions / LoadExtensions ran, at a virtual path to which no
\* enabled extension contributes, is present and unchanged when the call has
\* returned.
C14_IncrementalMerge == [][C14_RegistryStep /\ C14_PoolStep]_vars

(***************************************************************************)
(* Extension records toggled between resolutions.                          *)
(***************************************************************************)
\* The extensions installed on disk.
InstalledExtensions == {ext42, ext7}

\* The enabled flag of the record of extension id in the table of a kind is
\* flipped. The resolution result and the lookup made before the toggle no
\* longer describe the records.
Toggle(kind, id) ==
  /\ \/ /\ kind = sPages
        /\ extPages' = IF id \in extPages THEN extPages \ {id}
                       ELSE extPages \cup {id}
        /\ UNCHANGED extWidgets
     \/ /\ kind = sWidgets
        /\ extWidgets' = IF id \in extWidgets THEN extWidgets \ {id}
                         ELSE extWidgets \cup {id}
        /\ UNCHANGED extPages
  /\ result' = NoResult
  /\ got' = NoLookup
  /\ UNCHANGED <<laterVars, activeWidgets, fsFiles, fsDirs, widgetList, inst,
                 rw, pc, arg, path, x, err, held, added, was, pageList,
                 lastWrite, loads>>

\* A toggle is made between resolution calls and is followed by a resolution
\* of the kind toggled; lookups are made at any time, also while
\* CompileExtensions writes the map.
NextToggle ==
  \/ Running /\ RebuildFiles(sPages)
  \/ \E rows \in Perms(extPages), scanAt \in 0..Cardinality(extPages) :
       Running /\ RebuildLock(sPages, rows, scanAt)
  \/ Running /\ RebuildWriteBegin
  \/ Running /\ RebuildWriteEnd
  \/ Running /\ RebuildReturn
  \/ Running /\ loads < MaxLoads /\ Load(sWidgets)
  \/ \E rows \in Perms(extWidgets), scanAt \in 0..Cardinality(extWidgets) :
       Running /\ loads < MaxLoads /\ LoadExtensions(rows, scanAt)
  \/ \E kind \in {sPages, sWidgets}, id \in InstalledExtensions :
       Running /\ result # NoResult /\ rb.pc = "idle" /\ Toggle(kind, id)
  \/ \E p \in PagePaths : Running /\ Get(p)
  \/ \E p \in PagePaths : Running /\ LookupDuringWrite("Get", p)

\* The installations in which every script compiles and loads.
InitToggle == InitReg /\ \A f \in DOMAIN fsFiles : fsFiles[f] = "ok"

SpecToggle == InitToggle /\ [][NextToggle]_vars

\* The scripts of a kind of the primary tree.
PrimaryScripts(kind) ==
  {f \in DOMAIN fsFiles : HasPrefix(f, kind \o <<"/">>) /\ HasSuffix(f, DotLua)}

\* The scripts of a kind of the extensions that are enabled.
EnabledScripts(enabled, kind) ==
  UNION {ExtensionScripts(id, kind) : id \in enabled}

\* The half of C15 about the pool: after a LoadExtensions call, the idle
\* states of extension scripts are of extensions enabled at that call.
C15_PoolHalf ==
  (result.op = "LoadExtensions" /\ ~result.err) =>
    PooledScripts \subseteq
      PrimaryScripts(sWidgets) \cup EnabledScripts(extWidgets, sWidgets)

\* C15: only enabled extension records participate in resolution. After any
\* sequence of toggles, each followed by a resolution, the registry and the
\* pool hold entries of extension scripts only from the extensions enabled at
\* the most recent resolution, and a lookup returns no script of an extension
\* that is disabled.
C15_OnlyEnabledParticipate ==
  /\ (result.op = "CompileExtensions" /\ ~result.err) =>
       /\ \A k \in DOMAIN pageList :
            pageList[k].src \in
              PrimaryScripts(sPages) \cup EnabledScripts(extPages, sPages)
       /\ (got.op = "Get" /\ got.found) =>
            got.proto.src \in
              PrimaryScripts(sPages) \cup EnabledScripts(extPages, sPages)
  /\ C15_PoolHalf

\* The binding is run with the widgets of one file system on disk.
InitPlayer == Init /\ wLowerB \in DOMAIN fsFiles

SpecPlayer == InitPlayer /\ [][NextPlayer]_vars

(***************************************************************************)
(* Properties of the player binding.                                       *)
(***************************************************************************)
\* C16: PlayerConstructor never returns a handle whose __player is nil. For
\* every argument it returns a handle backed by a player loaded from the data
\* layer, or it reports not-found by returning nil; it returns nil for an id
\* or a name no player has.
C16_BindNeverNilBacked ==
  /\ handle.bound =>
       /\ handle.player.ptr = "player"
       /\ handle.player.ID \in DOMAIN players
  /\ ret.op = "PlayerConstructor" =>
       /\ ret.outcome = "return"
       /\ ret.value \in {LPlayer(a) : a \in Addresses} \cup {LNil}
       /\ ret.value # LNil <=> handle.bound
       /\ ret.cause = "norows" => ret.value = LNil

\* C17: bind distinguishes its two failure kinds: no outcome PlayerConstructor
\* has given a script when the player did not exist is an outcome it has
\* given when the call of the data layer failed.
C17_DistinctFailures == seen["norows"] \cap seen["data"] = {}

\* The field name a custom-field call was made with.
FieldNameOf(call) == LStateToString(call.args[1])

\* The catalog query of the last call returned the column list.
CatalogAnswered == ~(ret.outcome = "raise" /\ ret.stmts = <<SelectCatalog>>)

CustomFieldOps == {"SetPlayerCustomField", "GetPlayerCustomField"}

\* After a custom-field call with a name outside the catalog: the catalog
\* query is the only statement issued, nothing is raised and nil (or nothing)
\* is returned; statements beyond the catalog query are issued for names of
\* the catalog only.
C18_UnknownFieldState ==
  ret.op \in CustomFieldOps =>
    /\ (CatalogAnswered /\ FieldNameOf(ret) \notin Catalog) =>
         /\ ret.stmts = <<SelectCatalog>>
         /\ ret.outcome = "return"
         /\ ret.value = LNil
    /\ Len(ret.stmts) > 1 => FieldNameOf(ret) \in Catalog

\* A custom-field call with a name outside the catalog changes neither the
\* data layer nor the handle.
C18_UnknownFieldStep ==
  (ret'.op \in CustomFieldOps /\ FieldNameOf(ret') \notin Catalog) =>
    /\ players' = players
    /\ storage' = storage
    /\ handle' = handle

\* C18: custom-field access is restricted to the live column catalog. For a
\* field name not in the catalog of the players table SetPlayerCustomField
\* issues no UPDATE, leaves the data layer and the handle unchanged and raises
\* nothing, and GetPlayerCustomField issues no SELECT on the players table and
\* returns nil; a data statement is issued only for a name of the catalog.
C18_CatalogAllowList ==
  [](C18_UnknownFieldState) /\ [][C18_UnknownFieldStep]_vars

\* SetPlayerCustomField has been called with a name outside the
\* catalog, on a handle of a player whose row an earlier call has changed.
C18_Witness ==
  /\ ret.op = "SetPlayerCustomField"
  /\ FieldNameOf(ret) = cUnknown
  /\ ret.outcome = "return"
  /\ HasPlayer
  /\ players[handle.player.ID][cLevel] = 2

\* The handle is what a new bind of its player gives: __player and the fields
\* are those of the row in the data layer.
Refreshed ==
  /\ handle.player = LoadPlayer(players, handle.player.ID)
  /\ handle.fields = StructToTable(handle.player)

\* The last call was a mutation method that succeeded.
Mutated ==
  /\ ret.op \in {"SetPlayerBankBalance", "SetPlayerStorageValue",
                 "SetPlayerCustomField"}
  /\ ret.outcome = "return"
  /\ \E i \in 1..Len(ret.stmts) : ret.stmts[i].stmt = "UPDATE"

\* C19: after a mutation method on a player handle has succeeded, the fields
\* and the backing reference of the handle are those of the data layer, so
\* that the next field read does not return the value the mutated attribute
\* had before.
C19_RefreshedAfterMutation == Mutated => Refreshed

\* The half of C19 about SetPlayerCustomField.
C19_CustomFieldHalf ==
  (Mutated /\ ret.op = "SetPlayerCustomField") => Refreshed

\* The last call was made with an argument of a wrong type.
WronglyTyped ==
  \/ ret.op = "SetPlayerBankBalance" /\ ret.args[1].t # "number"
  \/ ret.op = "GetPlayerStorageValue" /\ ret.args[1].t # "number"
  \/ /\ ret.op = "SetPlayerStorageValue"
     /\ (ret.args[1].t # "number" \/ ret.args[2].t # "number")
  \/ ret.op \in CustomFieldOps /\ ret.args[1].t # "string"

\* C20: every bound method checks the types of its arguments before use: a
\* call with a wrongly typed argument raises a failure and issues no statement
\* on the data layer.
C20_ArgumentsChecked ==
  WronglyTyped => ret.outcome = "raise" /\ ret.stmts = <<>>

\* The half of C20 about the storage methods.
C20_StorageHalf ==
  (WronglyTyped /\ ret.op \in {"GetPlayerStorageValue", "SetPlayerStorageValue"})
    => ret.outcome = "raise" /\ ret.stmts = <<>>

(***************************************************************************)
(* The pool rebuilt while requests are served.                             *)
(***************************************************************************)
\* A widget script of an extension with the name of a widget of the primary
\* tree.
ExtWidgetA(id) == Join(ExtDir(id, sWidgets), Lua(<<"a">>))

\* The installation: two widgets of the primary tree differ in case only, and
\* the enabled extension 42 overrides the widget a.
InitReload ==
  /\ fsFiles = (wUpperA :> "ok") @@ (wLowerA :> "ok")
                 @@ (ExtWidgetA(ext42) :> "ok")
  /\ fsDirs = {sWidgets, ExtDir(ext42, sWidgets)}
  /\ extPages = {}
  /\ extWidgets = {ext42}
  /\ InitPool
  /\ InitRegistry
  /\ result = NoResult

\* Requests are served while the pool is loaded again (Load for the primary
\* tree, LoadExtensions for the extension trees); a rebuild holds s.rw from
\* its first statement to its return.
NextReload ==
  \/ loads < MaxLoads /\ Load(sWidgets)
  \/ \E rows \in Perms(extWidgets), scanAt \in 0..Cardinality(extWidgets) :
       loads < MaxLoads /\ LoadExtensions(rows, scanAt)
  \/ \E c \in Callers, p \in PoolPaths : CallGet(c, p)
  \/ \E c \in Callers : GetLock(c)
  \/ \E c \in Callers : GetColdStart(c)
  \/ \E c \in Callers : GetColdStartFail(c)
  \/ \E c \in Callers : GetLast(c)
  \/ \E c \in Callers : GetSlice(c)
  \/ \E c \in Callers : GetUnlock(c)
  \/ \E c \in Callers, t \in BOOLEAN : Run(c, t)
  \/ \E c \in Callers : PutLock(c)
  \/ \E c \in Callers : PutBody(c)
  \/ \E c \in Callers : PutUnlock(c)

SpecReload == InitReload /\ [][NextReload]_vars

\* The scripts the states of bucket key were initialised from: the idle
\* states of the bucket and the states a Get of a path with that lowercase
\* form has returned or is returning.
ScriptsOf(key) ==
  {inst[Bucket(widgetList, key)[n]].script :
     n \in 1..Len(Bucket(widgetList, key))}
  \cup {inst[Out(c)].script :
          c \in {d \in Callers : Out(d) # 0 /\ ToLower(arg[d]) = key}}

\* The script files the bucket key stands for after the extension overlay:
\* the scripts enabled extensions contribute under that virtual path, and
\* when there is none the scripts of the primary tree with that lowercase
\* path.
Overlay(key) ==
  LET ext == {f \in DOMAIN fsFiles :
                \E id \in extWidgets :
                  /\ HasPrefix(f, ExtDir(id, sWidgets) \o <<"/">>)
                  /\ VirtualPath(f, ExtDir(id, sWidgets), sWidgets) = key}
  IN IF ext # {} THEN ext
     ELSE {f \in DOMAIN fsFiles : HasPrefix(f, sWidgets) /\ ToLower(f) = key}

\* The bucket keys in use.
BucketKeys == DOMAIN widgetList \cup {ToLower(p) : p \in PoolPaths}

\* C21: a bucket is homogeneous: the states idle in the bucket of a path and
\* the states Get returns for that path, by pool hit or by cold start, were
\* all initialised from one script file, the one the path resolves to after
\* the extension overlay.
C21_BucketHomogeneous ==
  \A key \in BucketKeys :
    /\ Cardinality(ScriptsOf(key)) <= 1
    /\ ScriptsOf(key) \subseteq Overlay(key)

\* C24: a rebuild of the pool starts a new generation: a state that a Get
\* hands out after Load or LoadExtensions replaced the map is one built since
\* that rebuild began, never one that was checked out before it and checked
\* in after it.
C24_NewGeneration ==
  \A c \in Callers :
    pc[c] \in {"get_slice", "get_ret_x", "get_ret_new"} => x[c] > gen

(***************************************************************************)
(* Requests that check a state in twice.                                   *)
(***************************************************************************)
\* A request calls Put(state, p) a second time for the state i it has
\* already checked in under p and that nobody has taken since: the call
\* starts by lowering the path.
PutAgain(c, i) ==
  /\ pc[c] = "idle"
  /\ Cardinality(Slots(i)) = 1
  /\ \A d \in Callers : Out(d) # i
  /\ LET sl == CHOOSE sl \in Slots(i) : TRUE
     IN /\ arg' = [arg EXCEPT ![c] = sl[1]]
        /\ path' = [path EXCEPT ![c] = ToLower(sl[1])]
  /\ held' = [held EXCEPT ![c] = i]
  /\ pc' = [pc EXCEPT ![c] = "put_lock"]
  /\ UNCHANGED <<laterVars, activeWidgets,
                 fsFiles, fsDirs, widgetList, inst, rw, x, err, result, added,
                 was, regVars>>

NextAgain ==
  \/ Next
  \/ \E c \in Callers : \E i \in 1..Len(inst) : PutAgain(c, i)

SpecAgain == Init /\ [][NextAgain]_vars

\* C23: Put is safe against a repeated checkin: a second Put of a state that
\* is idle in the pool gives it no second slot, so no two Get calls are given
\* that state.
C23_RepeatedPutSafe ==
  /\ \A i \in 1..Len(inst) : Cardinality(Slots(i)) < 2
  /\ \A c1, c2 \in Callers :
       (c1 # c2 /\ pc[c1] = "run" /\ pc[c2] = "run") => held[c1] # held[c2]

\* The half of C23 that holds: a repeated Put loses no state: every state is
\* still idle in the pool or out with a request.
C23_PutAgainKeeps ==
  \A i \in 1..Len(inst) :
    Cardinality(Slots(i)) + Cardinality({c \in Callers : Out(c) = i}) >= 1

(***************************************************************************)
(* The pool under fair scheduling.                                         *)
(***************************************************************************)
\* The steps of a Get or Put call of goroutine c once it has the mutex: the
\* cold start (DoFile terminates), the pool hit, the body of Put and the
\* deferred unlock.
UnderLock(c) ==
  \/ GetColdStart(c)
  \/ GetColdStartFail(c)
  \/ GetLast(c)
  \/ GetSlice(c)
  \/ GetUnlock(c)
  \/ PutBody(c)
  \/ PutUnlock(c)

\* The scheduler runs every goroutine that can take a step, and the mutex is
\* weakly fair: a goroutine that could take it at every moment from some
\* moment on does take it. Requests need not arrive and scripts need not
\* call Put.
WeakFairness ==
  \A c \in Callers :
    /\ WF_vars(UnderLock(c))
    /\ WF_vars(GetLock(c))
    /\ WF_vars(PutLock(c))

\* The installation: widgets/a.lua loads, widgets/b.lua fails to load.
InitFair == Init /\ wLowerB \in DOMAIN fsFiles

\* The pool under requests for the two widgets; the scripts leave no
\* transaction open.
NextFair ==
  \/ Booting /\ Load(sWidgets)
  \/ \E c \in Callers, p \in {wLowerA, wLowerB} : Serving /\ CallGet(c, p)
  \/ \E c \in Callers : GetLock(c) \/ PutLock(c)
  \/ \E c \in Callers : UnderLock(c)
  \/ \E c \in Callers : Run(c, FALSE)

SpecFair == InitFair /\ [][NextFair]_vars /\ WeakFairness

\* The mutex is strongly fair: a goroutine that can take it again and again
\* does take it (no starvation of a waiter).
StrongMutex ==
  \A c \in Callers : SF_vars(GetLock(c)) /\ SF_vars(PutLock(c))

\* Goroutine c is blocked in s.rw.Lock() of a Get or a Put.
Blocked(c) == pc[c] \in {"get_lock", "put_lock"}

\* The Get or Put call of goroutine c has returned.
Completed(c) == pc[c] \in {"run", "idle"}

\* Every caller blocked in Get or Put eventually completes.
EveryCallerCompletes == \A c \in Callers : Blocked(c) ~> Completed(c)

\* The mutex is released on every exit path: once taken it becomes free.
MutexReleased == \A c \in Callers : (rw = c) ~> (rw = 0)

\* While goroutine c is under the mutex no Get or Put of another goroutine
\* completes.
ExclusionStep ==
  \A c, d \in Callers :
    (c # d /\ rw = c) => ~(~Completed(d) /\ Completed(d)')

\* C22 as stated: with script initialisation terminating and a weakly fair
\* mutex, every caller blocked in Get or Put eventually completes, and while
\* one caller cold-starts under the mutex no Get or Put of another completes.
C22_WeakFairnessSuffices == EveryCallerCompletes /\ [][ExclusionStep]_vars

\* C22 amended: Get and Put release the mutex on every exit path, a failed
\* cold start included, so the mutex always becomes free again; while one
\* caller is under the mutex no Get or Put of another caller completes; and
\* every caller blocked in Get or Put eventually completes provided the mutex
\* is strongly fair.
C22_DeadlockFree ==
  /\ MutexReleased
  /\ [][ExclusionStep]_vars
  /\ (StrongMutex => EveryCallerCompletes)

\* C22 witness: a caller is blocked in Lock while another, whose cold start
\* has failed, is about to return under the mutex.
C22_Witness ==
  \E c, d \in Callers :
    /\ c # d
    /\ Blocked(c)
    /\ pc[d] = "get_ret_err"
    /\ rw = d

(***************************************************************************)
(* Properties of the startup.                                              *)
(***************************************************************************)
InitStart == Init /\ wUpperA \in DOMAIN fsFiles

SpecStart == InitStart /\ [][NextStart]_vars

\* The tasks that have returned.
Returned == {t \in StartupTasks : start.at[t] = "returned"}

\* C25: Start returns only after each of the ten tasks has signalled the wait
\* group exactly once: the counter is never negative, it is ten minus the
\* number of tasks that have returned, and it is zero when all have; the
\* tasks of the chain run one after the other in the order application
\* config, script config, database connection, database migration, map load,
\* house load.
C25_StartWaitsForTasks ==
  /\ start.wait >= 0
  /\ \A t \in StartupTasks :
       start.signals[t] = (IF t \in Returned THEN 1 ELSE 0)
  /\ start.pc # "add" => start.wait = WaitAdd - Cardinality(Returned)
  /\ Returned = StartupTasks => start.wait = 0
  /\ start.pc = "returned" => Returned = StartupTasks
  /\ \A i \in 1..Len(start.order) : start.order[i] = ChainTasks[i]
  /\ \A i \in 2..Len(ChainTasks) :
       start.at[ChainTasks[i]] # "idle"
         => start.at[ChainTasks[i - 1]] = "returned"

\* C25 witness: Start has returned, and the tasks outside the chain ran
\* interleaved with it: one finished before the application config was
\* loaded, another after the houses were.
C25_Witness ==
  /\ start.pc = "returned"
  /\ start.first = "widgetTemplates"
  /\ start.last = "createCache"

====
